---------------------------- MODULE Spec2Model ----------------------------
(***************************************************************************)
(* A model of the RestMan web UI (App component): the request payload      *)
(* builder, the per-endpoint auto request (polling) timers and the         *)
(* OpenAPI import / sync status handling.                                  *)
(*                                                                         *)
(* JavaScript strings whose characters the code inspects (URLs, parameter  *)
(* names and values, bodies) are sequences of one-character strings.       *)
(* JavaScript objects whose key order the code observes are ordered maps:  *)
(* sequences of [k, v] records with distinct keys, in insertion order.     *)
(***************************************************************************)
EXTENDS Integers, Sequences, FiniteSets, Bags, TLC

\* ------------------------------------------------------------------------
\* Bounds of the model.
\* ------------------------------------------------------------------------

\* How many auto requests may be dispatched in one behaviour.
MaxDispatch == 2

\* How many times Date.now() advances in one behaviour.
MaxClock == 3

\* How many toggle_sync calls may be unsettled at once.
MaxToggles == 2

\* ------------------------------------------------------------------------
\* Program constants.
\* ------------------------------------------------------------------------

maxHistoryEntries == 50

maxOpenApiHistoryEntries == 8

defaultAutoRequestIntervalMs == 60000

\* The interval <select> offers 30 s, 1 min and 5 min.
IntervalOptions == {30000, 60000, 300000}

\* undefined where the source expects a string: a value no string equals.
Undefined == <<"undefined">>

\* null where the source expects an object.
Null == [null |-> TRUE]

\* null where the source expects a string.
NullStr == <<"null">>

\* null where the source expects a number; the number n is <<n>>.
NullNum == <<>>

\* ------------------------------------------------------------------------
\* Strings as sequences of characters.
\* ------------------------------------------------------------------------

\* A UTF-16 code unit that is half of a surrogate pair on its own.
LoneSurrogate == "\\uD800"

Whitespace == {" ", "\n", "\t"}

LowerCaseLetters ==
  {"a", "b", "c", "d", "e", "f", "g", "h", "i", "j", "k", "l", "m",
   "n", "o", "p", "q", "r", "s", "t", "u", "v", "w", "x", "y", "z"}

UpperCaseLetters ==
  {"A", "B", "C", "D", "E", "F", "G", "H", "I", "J", "K", "L", "M",
   "N", "O", "P", "Q", "R", "S", "T", "U", "V", "W", "X", "Y", "Z"}

Digits == {"0", "1", "2", "3", "4", "5", "6", "7", "8", "9"}

\* Characters encodeURIComponent leaves as they are.
UriUnreserved ==
  LowerCaseLetters \cup UpperCaseLetters \cup Digits
    \cup {"-", "_", ".", "!", "~", "*", "'", "(", ")"}

\* Characters the URLSearchParams serializer leaves as they are.
FormUnreserved ==
  LowerCaseLetters \cup UpperCaseLetters \cup Digits \cup {"*", "-", ".", "_"}

\* The UTF-8 percent-encoding of one character (the characters the model
\* uses that some encoder escapes).
PercentEncode(c) ==
  CASE c = " " -> <<"%", "2", "0">>
    [] c = "/" -> <<"%", "2", "F">>
    [] c = "?" -> <<"%", "3", "F">>
    [] c = "&" -> <<"%", "2", "6">>
    [] c = "=" -> <<"%", "3", "D">>
    [] c = ":" -> <<"%", "3", "A">>
    [] c = "{" -> <<"%", "7", "B">>
    [] c = "}" -> <<"%", "7", "D">>
    [] c = "~" -> <<"%", "7", "E">>
    [] c = "\n" -> <<"%", "0", "A">>
    [] c = "\t" -> <<"%", "0", "9">>
    [] c = "%" -> <<"%", "2", "5">>
    [] c = "#" -> <<"%", "2", "3">>
    [] c = "+" -> <<"%", "2", "B">>
    [] c = "!" -> <<"%", "2", "1">>
    [] c = "'" -> <<"%", "2", "7">>
    [] c = "(" -> <<"%", "2", "8">>
    [] c = ")" -> <<"%", "2", "9">>
    [] c = LoneSurrogate -> <<"%", "E", "F", "%", "B", "F", "%", "B", "D">>

RECURSIVE Flatten(_)
Flatten(ss) == IF ss = <<>> THEN <<>> ELSE Head(ss) \o Flatten(Tail(ss))

\* encodeURIComponent raises URIError on a lone surrogate.
EncodeThrows(s) == \E i \in 1..Len(s) : s[i] = LoneSurrogate

encodeURIComponent(s) ==
  Flatten([i \in 1..Len(s) |->
             IF s[i] \in UriUnreserved THEN <<s[i]>> ELSE PercentEncode(s[i])])

\* The application/x-www-form-urlencoded serializer of URLSearchParams: a
\* space becomes "+", a lone surrogate was replaced by U+FFFD on append.
FormEncode(s) ==
  Flatten([i \in 1..Len(s) |->
             IF s[i] \in FormUnreserved THEN <<s[i]>>
             ELSE IF s[i] = " " THEN <<"+">>
             ELSE PercentEncode(s[i])])

RECURSIVE TrimStart(_)
TrimStart(s) ==
  IF s # <<>> /\ Head(s) \in Whitespace THEN TrimStart(Tail(s)) ELSE s

RECURSIVE TrimEnd(_)
TrimEnd(s) ==
  IF s # <<>> /\ s[Len(s)] \in Whitespace
    THEN TrimEnd(SubSeq(s, 1, Len(s) - 1))
    ELSE s

\* String.prototype.trim
Trim(s) == TrimEnd(TrimStart(s))

\* String.prototype.includes for a one-character needle.
Includes(s, c) == \E i \in 1..Len(s) : s[i] = c

\* Array.prototype.includes
ArrayIncludes(arr, x) == \E i \in 1..Len(arr) : arr[i] = x

\* The first index at which pat occurs in s, 0 when it does not.
IndexOf(s, pat) ==
  LET hits == {i \in 1..(Len(s) - Len(pat) + 1) :
                 SubSeq(s, i, i + Len(pat) - 1) = pat}
  IN IF hits = {} THEN 0 ELSE CHOOSE i \in hits : \A j \in hits : i <= j

\* String.prototype.replace with a string pattern: the first occurrence only.
\* (The replacement never holds "$": encodeURIComponent encodes it.)
Replace(s, pat, rep) ==
  LET i == IndexOf(s, pat)
  IN IF i = 0 THEN s
     ELSE SubSeq(s, 1, i - 1) \o rep \o SubSeq(s, i + Len(pat), Len(s))

\* The upper case letters the model uses.
ToLowerChar(c) ==
  CASE c = "C" -> "c"
    [] c = "T" -> "t"
    [] c = "X" -> "x"
    [] c = "H" -> "h"
    [] c = "P" -> "p"
    [] c = "S" -> "s"
    [] OTHER -> c

\* String.prototype.toLowerCase
ToLowerCase(s) == [i \in 1..Len(s) |-> ToLowerChar(s[i])]

\* ------------------------------------------------------------------------
\* Objects as ordered maps.
\* ------------------------------------------------------------------------

EmptyObj == <<>>

ObjKeys(o) == [i \in 1..Len(o) |-> o[i].k]

ObjHas(o, key) == \E i \in 1..Len(o) : o[i].k = key

\* o[key], undefined when the key is absent.
ObjGet(o, key) ==
  IF ObjHas(o, key)
    THEN o[CHOOSE i \in 1..Len(o) : o[i].k = key].v
    ELSE Undefined

\* { ...o, [key]: val }: an existing key keeps its place, a new one is last.
ObjSet(o, key, val) ==
  IF ObjHas(o, key)
    THEN [i \in 1..Len(o) |-> IF o[i].k = key THEN [k |-> key, v |-> val] ELSE o[i]]
    ELSE Append(o, [k |-> key, v |-> val])

\* A string value the source treats as false: undefined or the empty string.
Falsy(v) == v = Undefined \/ v = <<>>

\* ------------------------------------------------------------------------
\* Endpoints, drafts and the request payload builder.
\* ------------------------------------------------------------------------

\* `${endpoint.method}:${endpoint.path}`
endpointKey(endpoint) == <<endpoint.method, ":">> \o endpoint.path

formBodyTypes == {"multipart/form-data", "application/x-www-form-urlencoded"}

isFormBodyType(bodyType) == bodyType \in formBodyTypes

StartsWith(s, prefix) ==
  Len(s) >= Len(prefix) /\ SubSeq(s, 1, Len(prefix)) = prefix

\* /^https?:\/\//i.test(value)
isAbsoluteUrl(value) ==
  \/ StartsWith(ToLowerCase(value), <<"h", "t", "t", "p", ":", "/", "/">>)
  \/ StartsWith(ToLowerCase(value), <<"h", "t", "t", "p", "s", ":", "/", "/">>)

\* new URL(value).origin of an http(s) URL: the scheme and the authority.
\* (The hosts of the model are lower case and carry no default port.)
UrlOrigin(value) ==
  LET from == IF StartsWith(ToLowerCase(value), <<"h", "t", "t", "p", ":", "/", "/">>)
                THEN 8 ELSE 9
      ends == {i \in from..Len(value) : value[i] \in {"/", "?", "#"}}
      stop == IF ends = {} THEN Len(value) + 1
              ELSE CHOOSE i \in ends : \A j \in ends : i <= j
  IN SubSeq(value, 1, stop - 1)

\* new URL() raises on a URL with no scheme and gives the origin "null" for
\* a scheme other than http(s): both return endpoint.path.
resolveEndpointUrl(endpoint, collectionUrl) ==
  IF isAbsoluteUrl(endpoint.path) THEN endpoint.path
  ELSE IF collectionUrl = NullStr \/ Falsy(collectionUrl) THEN endpoint.path
  ELSE IF ~isAbsoluteUrl(collectionUrl) THEN endpoint.path
  ELSE IF endpoint.path # <<>> /\ Head(endpoint.path) = "/"
    THEN UrlOrigin(collectionUrl) \o endpoint.path
  ELSE UrlOrigin(collectionUrl) \o <<"/">> \o endpoint.path

defaultBodyType(endpoint) ==
  IF endpoint = Null THEN "application/json"
  ELSE IF endpoint.body_media_types = Undefined \/ endpoint.body_media_types = <<>>
    THEN "application/json"
  ELSE IF ArrayIncludes(endpoint.body_media_types, "multipart/form-data")
    THEN "multipart/form-data"
  ELSE IF ArrayIncludes(endpoint.body_media_types, "application/x-www-form-urlencoded")
    THEN "application/x-www-form-urlencoded"
  ELSE endpoint.body_media_types[1]

RECURSIVE FormDefaultsFrom(_, _)
FormDefaultsFrom(fields, acc) ==
  IF fields = <<>> THEN acc
  ELSE LET field == Head(fields)
       IN FormDefaultsFrom(Tail(fields),
            IF field.is_file
              THEN [acc EXCEPT !.fileValues = ObjSet(@, field.name, <<>>)]
              ELSE [acc EXCEPT !.formValues = ObjSet(@, field.name, <<>>)])

buildFormDefaults(fields) ==
  IF fields = Undefined
    THEN [formValues |-> EmptyObj, fileValues |-> EmptyObj]
    ELSE FormDefaultsFrom(fields, [formValues |-> EmptyObj, fileValues |-> EmptyObj])

\* The examples of the model are strings: String(example) is the example.
formatExample(example) == IF example = Undefined THEN <<>> ELSE example

\* The body examples of the model are not JSON: JSON.parse fails on them and
\* the example is returned as it is.
formatBodyExample(bodyExample) ==
  IF Falsy(bodyExample) THEN <<>> ELSE bodyExample

RECURSIVE DraftParamsFrom(_, _)
DraftParamsFrom(parameters, acc) ==
  IF parameters = <<>> THEN acc
  ELSE DraftParamsFrom(Tail(parameters),
         ObjSet(acc, Head(parameters).name, formatExample(Head(parameters).example)))

buildDraftFromEndpoint(endpoint) ==
  LET defaults == buildFormDefaults(endpoint.body_fields)
  IN [params |-> DraftParamsFrom(endpoint.parameters, EmptyObj),
      body |-> formatBodyExample(endpoint.body_example),
      bodyType |-> defaultBodyType(endpoint),
      formValues |-> defaults.formValues,
      fileValues |-> defaults.fileValues]

\* The forEach over endpoint.parameters: acc is [finalUrl, headers, query, threw].
RECURSIVE ApplyParameters(_, _, _)
ApplyParameters(parameters, params, acc) ==
  IF parameters = <<>> \/ acc.threw THEN acc
  ELSE
    LET param == Head(parameters)
        val == ObjGet(params, param.name)
        next ==
          IF Falsy(val) THEN acc
          ELSE IF param.in_type = "path" THEN
            IF EncodeThrows(val) THEN [acc EXCEPT !.threw = TRUE]
            ELSE [acc EXCEPT !.finalUrl =
                    Replace(@, <<"{">> \o param.name \o <<"}">>, encodeURIComponent(val))]
          ELSE IF param.in_type = "query" THEN
            [acc EXCEPT !.query = Append(@, [k |-> param.name, v |-> val])]
          ELSE IF param.in_type = "header" THEN
            [acc EXCEPT !.headers = ObjSet(@, param.name, val)]
          ELSE acc
    IN ApplyParameters(Tail(parameters), params, next)

\* URLSearchParams.prototype.toString
RECURSIVE SearchParamsToString(_)
SearchParamsToString(pairs) ==
  IF pairs = <<>> THEN <<>>
  ELSE FormEncode(Head(pairs).k) \o <<"=">> \o FormEncode(Head(pairs).v)
       \o (IF Tail(pairs) = <<>> THEN <<>>
           ELSE <<"&">> \o SearchParamsToString(Tail(pairs)))

\* hasHeader comparing the names as written.
hasHeader_CaseSensitive(headers, name) ==
  \E i \in 1..Len(headers) : headers[i].k = name

hasHeader(headers, name) ==
  \E i \in 1..Len(headers) : ToLowerCase(headers[i].k) = ToLowerCase(name)

ContentTypeName == <<"C", "o", "n", "t", "e", "n", "t", "-", "T", "y", "p", "e">>

TruthyEntry(entry) == ~Falsy(entry.v)

TruthyPath(path) == ~Falsy(path)

NonEmptyPaths(entry) == entry.paths # <<>>

MultipartOf(formValuesInput, fileValuesInput) ==
  [fields |-> SelectSeq(formValuesInput, TruthyEntry),
   files |-> SelectSeq(
               [i \in 1..Len(fileValuesInput) |->
                  [name |-> fileValuesInput[i].k,
                   paths |-> SelectSeq(fileValuesInput[i].v, TruthyPath)]],
               NonEmptyPaths)]

\* A body type as the value of a header: a string of one token.
HeaderValueOf(bodyTypeInput) == <<bodyTypeInput>>

\* The body encoder when it passes the trimmed body on.
EncodeBody_Trims(headers, bodyInput, bodyTypeInput, formValuesInput, fileValuesInput) ==
  IF bodyTypeInput = "multipart/form-data" THEN
    [headers |-> headers, body |-> NullStr,
     multipart |-> MultipartOf(formValuesInput, fileValuesInput)]
  ELSE IF bodyTypeInput = "application/x-www-form-urlencoded" THEN
    [headers |-> headers, body |-> NullStr, multipart |-> Null]
  ELSE
    [headers |-> headers,
     body |-> IF Len(Trim(bodyInput)) > 0 THEN Trim(bodyInput) ELSE NullStr,
     multipart |-> Null]

\* The body, headers and multipart descriptor for a method that allows a
\* body.
EncodeBody(headers, bodyInput, bodyTypeInput, formValuesInput, fileValuesInput) ==
  IF bodyTypeInput = "multipart/form-data" THEN
    [headers |-> headers, body |-> NullStr,
     multipart |-> MultipartOf(formValuesInput, fileValuesInput)]
  ELSE IF bodyTypeInput = "application/x-www-form-urlencoded" THEN
    LET encoded == SearchParamsToString(SelectSeq(formValuesInput, TruthyEntry))
        body == IF Len(encoded) > 0 THEN encoded ELSE NullStr
    IN [headers |->
          IF body # NullStr /\ ~hasHeader(headers, ContentTypeName)
            THEN ObjSet(headers, ContentTypeName,
                        HeaderValueOf("application/x-www-form-urlencoded"))
            ELSE headers,
        body |-> body, multipart |-> Null]
  ELSE
    LET trimmed == Trim(bodyInput)
        body == IF Len(trimmed) > 0 THEN bodyInput ELSE NullStr
    IN [headers |->
          IF body # NullStr /\ bodyTypeInput # "" /\ ~hasHeader(headers, ContentTypeName)
            THEN ObjSet(headers, ContentTypeName, HeaderValueOf(bodyTypeInput))
            ELSE headers,
        body |-> body, multipart |-> Null]

\* finalUrl with "?" and the query string appended even when it is empty.
WithQuery_Always(finalUrl, queryString) ==
  finalUrl \o (IF Includes(finalUrl, "?") THEN <<"&">> ELSE <<"?">>)
    \o queryString

\* finalUrl with the query string appended.
WithQuery(finalUrl, queryString) ==
  IF queryString # <<>>
    THEN finalUrl \o (IF Includes(finalUrl, "?") THEN <<"&">> ELSE <<"?">>)
           \o queryString
    ELSE finalUrl

\* The second half of buildRequestPayload, after the forEach over the
\* parameters left applied = [finalUrl, headers, query, threw].
FinishPayload(applied, methodInput, bodyInput, bodyTypeInput, formValuesInput, fileValuesInput) ==
  LET Result(encoded) ==
        [threw |-> applied.threw,
         finalUrl |-> WithQuery(applied.finalUrl, SearchParamsToString(applied.query)),
         headers |-> encoded.headers,
         body |-> encoded.body,
         multipart |-> encoded.multipart]
  IN Result(IF methodInput # "GET"
              THEN EncodeBody(applied.headers, bodyInput, bodyTypeInput,
                              formValuesInput, fileValuesInput)
              ELSE [headers |-> applied.headers, body |-> NullStr,
                    multipart |-> Null])

\* The result of buildRequestPayload; threw is TRUE when it raised instead.
buildRequestPayload(endpoint, methodInput, urlInput, params, bodyInput, bodyTypeInput, formValuesInput, fileValuesInput) ==
  FinishPayload(
    IF endpoint # Null
      THEN ApplyParameters(endpoint.parameters, params,
             [finalUrl |-> urlInput, headers |-> EmptyObj, query |-> <<>>,
              threw |-> FALSE])
      ELSE [finalUrl |-> urlInput, headers |-> EmptyObj, query |-> <<>>,
            threw |-> FALSE],
    methodInput, bodyInput, bodyTypeInput, formValuesInput, fileValuesInput)

\* ------------------------------------------------------------------------
\* The data of the model: endpoints, collections, inputs.
\* ------------------------------------------------------------------------

UrlA == <<"h", "t", "t", "p", ":", "/", "/", "a", "/", "o">>

UrlB == <<"h", "t", "t", "p", ":", "/", "/", "b", "/", "o">>

\* GET /p/{i} with one path parameter whose example is 7.
EpGet ==
  [method |-> "GET", path |-> <<"/", "p", "/", "{", "i", "}">>,
   parameters |-> <<[name |-> <<"i">>, in_type |-> "path", example |-> <<"7">>]>>,
   body_example |-> Undefined, body_media_types |-> Undefined,
   body_fields |-> Undefined]

\* POST /q with a JSON body.
EpPost ==
  [method |-> "POST", path |-> <<"/", "q">>,
   parameters |-> <<>>,
   body_example |-> <<"x">>, body_media_types |-> <<"application/json">>,
   body_fields |-> Undefined]

ColA ==
  [name |-> "A", url |-> UrlA, sync_enabled |-> TRUE,
   groups |-> <<[k |-> "pets", v |-> <<EpGet, EpPost>>]>>]

\* Every endpoint of a collection, in the order the nested loops of
\* findEndpointByKey visit them.
CollectionEndpoints(collection) ==
  Flatten([i \in 1..Len(collection.groups) |-> collection.groups[i].v])

\* ------------------------------------------------------------------------
\* The state of the App component.
\* ------------------------------------------------------------------------

VARIABLES
  collections,            \* useState: ordered map url -> Collection
  collectionsRef,         \* useRef: collections as of the last render
  openApiUrl,             \* useState: the import URL field
  openApiHistory,         \* useState: recently imported URLs
  isImporting,            \* useState
  syncStatus,             \* useState: "idle" | "syncing" | "updated"
  lastSyncedAt,           \* useState: <<Date.now()>> or NullNum
  syncTimeoutRef,         \* useRef: <<id>> of the last reset timeout or NullNum
  timeouts,               \* window: ids of the pending sync reset timeouts
  imports,                \* import_openapi calls that have not settled (a bag)
  toggles,                \* toggle_sync calls that have not settled (a bag)
  clock,                  \* Date.now()
  selectedEndpoint,       \* useState: an Endpoint or Null
  method,                 \* useState
  url,                    \* useState
  paramValues,            \* useState
  requestBody,            \* useState
  bodyType,               \* useState
  formValues,             \* useState
  fileValues,             \* useState
  endpointDrafts,         \* useState: ordered map key -> RequestDraft
  draftsRef,              \* useRef: endpointDrafts as of the last render
  autoRequests,           \* useState: ordered map key -> boolean
  autoRequestIntervalMs,  \* useState
  autoRequestTimersRef,   \* useRef: ordered map key -> interval timer id
  intervalTimers,         \* window: the live interval timers [id, key, interval]
  autoRequestInFlightRef, \* useRef: ordered map key -> boolean
  pending,                \* "request" calls that have not settled (a bag)
  history,                \* useState: HistoryEntry[]
  lastEvent               \* history variable: the handler that ran last

syncVars ==
  <<collections, collectionsRef, openApiUrl, openApiHistory, isImporting,
    syncStatus, lastSyncedAt, syncTimeoutRef, timeouts, imports, toggles,
    clock>>

panelVars ==
  <<selectedEndpoint, method, url, paramValues, requestBody, bodyType,
    formValues, fileValues>>

draftVars == <<endpointDrafts, draftsRef>>

timerVars ==
  <<autoRequests, autoRequestIntervalMs, autoRequestTimersRef, intervalTimers>>

flightVars == <<autoRequestInFlightRef, pending>>

vars ==
  <<syncVars, panelVars, draftVars, timerVars, flightVars, history, lastEvent>>

\* The state after the first render and its effects.
Init ==
  /\ collections = EmptyObj
  /\ collectionsRef = EmptyObj
  /\ openApiUrl = <<>>
  /\ openApiHistory = <<>>
  /\ isImporting = FALSE
  /\ syncStatus = "idle"
  /\ lastSyncedAt = NullNum
  /\ syncTimeoutRef = NullNum
  /\ timeouts = {}
  /\ imports = EmptyBag
  /\ toggles = EmptyBag
  /\ clock = 0
  /\ selectedEndpoint = Null
  /\ method = "GET"
  /\ url = <<>>
  /\ paramValues = EmptyObj
  /\ requestBody = <<>>
  /\ bodyType = "application/json"
  /\ formValues = EmptyObj
  /\ fileValues = EmptyObj
  /\ endpointDrafts = EmptyObj
  /\ draftsRef = EmptyObj
  /\ autoRequests = EmptyObj
  /\ autoRequestIntervalMs = defaultAutoRequestIntervalMs
  /\ autoRequestTimersRef = EmptyObj
  /\ intervalTimers = {}
  /\ autoRequestInFlightRef = EmptyObj
  /\ pending = EmptyBag
  /\ history = <<>>
  /\ lastEvent = [type |-> "init"]

\* ------------------------------------------------------------------------
\* Auto requests (polling).
\* ------------------------------------------------------------------------

\* o[key] read as a condition: absent (undefined) is false.
ObjTrue(o, key) == ObjHas(o, key) /\ ObjGet(o, key) = TRUE

\* Every endpoint of every collection of cols (collectionsRef.current or
\* collections), in Object.values order.
AllEndpoints(cols) ==
  Flatten([i \in 1..Len(cols) |-> CollectionEndpoints(cols[i].v)])

findEndpointByKey(cols, key) ==
  LET eps == AllEndpoints(cols)
      hits == {i \in 1..Len(eps) : endpointKey(eps[i]) = key}
  IN IF hits = {} THEN Null
     ELSE eps[CHOOSE i \in hits : \A j \in hits : i <= j]

\* The url of the first collection holding an endpoint with the same key
\* (candidate === endpoint implies the keys are equal), NullStr when none does.
findCollectionUrlForEndpoint(cols, endpoint) ==
  LET hits == {i \in 1..Len(cols) :
                 \E j \in 1..Len(CollectionEndpoints(cols[i].v)) :
                   endpointKey(CollectionEndpoints(cols[i].v)[j])
                     = endpointKey(endpoint)}
  IN IF hits = {} THEN NullStr
     ELSE cols[CHOOSE i \in hits : \A j \in hits : i <= j].v.url

\* addHistoryEntry when it puts the entry after the others.
addHistoryEntry_Appends(prev, entry) ==
  SubSeq(prev \o <<entry>>, 1,
         IF Len(prev) + 1 <= maxHistoryEntries THEN Len(prev) + 1 ELSE maxHistoryEntries)

\* setHistory((prev) => [entry, ...prev].slice(0, maxHistoryEntries))
addHistoryEntry(prev, entry) ==
  SubSeq(<<entry>> \o prev, 1,
         IF Len(prev) + 1 <= maxHistoryEntries THEN Len(prev) + 1 ELSE maxHistoryEntries)

\* The draft runBackgroundRequest sends: draftsRef.current[key] or, when
\* there is none, the endpoint's defaults.
DraftFor(drafts, endpoint) ==
  IF ObjHas(drafts, endpointKey(endpoint))
    THEN ObjGet(drafts, endpointKey(endpoint))
    ELSE buildDraftFromEndpoint(endpoint)

\* The payload runBackgroundRequest builds for endpoint from draft.
BackgroundPayload(endpoint, draft, cols) ==
  buildRequestPayload(endpoint, endpoint.method,
    resolveEndpointUrl(endpoint, findCollectionUrlForEndpoint(cols, endpoint)),
    draft.params, draft.body, draft.bodyType, draft.formValues, draft.fileValues)

\* runBackgroundRequest once the flag is set: the call handed to
\* invoke("request").  When buildRequestPayload raised, the function ended
\* before its try block: the flag stays set and nothing is sent.
SendBackground(fl, endpoint, draft, payload) ==
  IF payload.threw
    THEN [fl EXCEPT !.inFlight = ObjSet(@, endpointKey(endpoint), TRUE)]
    ELSE [inFlight |-> ObjSet(fl.inFlight, endpointKey(endpoint), TRUE),
          pending |-> fl.pending (+) SetToBag({
            [key |-> endpointKey(endpoint), method |-> endpoint.method,
             path |-> endpoint.path, finalUrl |-> payload.finalUrl,
             headers |-> payload.headers, body |-> payload.body,
             multipart |-> payload.multipart, draft |-> draft]})]

\* runBackgroundRequest without the in-flight check.
runBackgroundRequest_NoGuard(fl, endpoint, refs) ==
  LET Send(draft) ==
        SendBackground(fl, endpoint, draft,
                       BackgroundPayload(endpoint, draft, refs.cols))
  IN Send(DraftFor(refs.drafts, endpoint))

\* runBackgroundRequest up to its await, applied to
\* fl = [inFlight |-> autoRequestInFlightRef.current, pending |-> the calls
\* handed to invoke("request")], with refs = [drafts |-> draftsRef.current,
\* cols |-> collectionsRef.current].
runBackgroundRequest(fl, endpoint, refs) ==
  IF ObjTrue(fl.inFlight, endpointKey(endpoint)) THEN fl
  ELSE LET Send(draft) ==
             SendBackground(fl, endpoint, draft,
                            BackgroundPayload(endpoint, draft, refs.cols))
       IN Send(DraftFor(refs.drafts, endpoint))

\* The body of an interval timer's callback and of the immediate trigger.
TriggerKey(fl, key, refs) ==
  LET Run(endpoint) ==
        IF endpoint # Null THEN runBackgroundRequest(fl, endpoint, refs) ELSE fl
  IN Run(findEndpointByKey(refs.cols, key))

\* window.setInterval returns an id no live timer has.
FreshTimerId(timers) ==
  CHOOSE n \in 1..(Cardinality(timers) + 1) : \A t \in timers : t.id # n

\* The forEach of the timers effect over Object.entries(autoRequests):
\* st = [registry, timers, fl].
RECURSIVE ArmTimers(_, _, _, _)
ArmTimers(entries, intervalMs, refs, st) ==
  IF entries = <<>> THEN st
  ELSE
    LET key == Head(entries).k
        enabled == Head(entries).v
        timerId == FreshTimerId(st.timers)
    IN ArmTimers(Tail(entries), intervalMs, refs,
         IF ~enabled THEN st
         ELSE [registry |-> ObjSet(st.registry, key, timerId),
               timers |-> st.timers \cup
                            {[id |-> timerId, key |-> key, interval |-> intervalMs]},
               fl |-> TriggerKey(st.fl, key, refs)])

\* The timers effect without the clearInterval calls.
TimersEffect_NoClear(nextAutoRequests, nextIntervalMs, refs) ==
  ArmTimers(nextAutoRequests, nextIntervalMs, refs,
    [registry |-> EmptyObj, timers |-> intervalTimers,
     fl |-> [inFlight |-> autoRequestInFlightRef, pending |-> pending]])

\* The timers effect when it re-arms the timers at the interval of the
\* render before.
TimersEffect_OldInterval(nextAutoRequests, nextIntervalMs, refs) ==
  ArmTimers(nextAutoRequests, autoRequestIntervalMs, refs,
    [registry |-> EmptyObj, timers |-> {},
     fl |-> [inFlight |-> autoRequestInFlightRef, pending |-> pending]])

\* The timers effect when clearing a timer also drops the calls in flight.
TimersEffect_Aborts(nextAutoRequests, nextIntervalMs, refs) ==
  ArmTimers(nextAutoRequests, nextIntervalMs, refs,
    [registry |-> EmptyObj, timers |-> {},
     fl |-> [inFlight |-> EmptyObj, pending |-> EmptyBag]])

\* The timers effect when it clears only the timers of the keys that are no
\* longer enabled.
TimersEffect_KeepsEnabled(nextAutoRequests, nextIntervalMs, refs) ==
  ArmTimers(nextAutoRequests, nextIntervalMs, refs,
    [registry |-> EmptyObj,
     timers |-> {t \in intervalTimers : ObjTrue(nextAutoRequests, t.key)},
     fl |-> [inFlight |-> autoRequestInFlightRef, pending |-> pending]])

\* The effect on [autoRequests, autoRequestIntervalMs]: clear every timer of
\* the registry, then arm one timer per enabled key and trigger it at once.
\* The effects that store draftsRef and collectionsRef are declared earlier
\* and have run: refs holds the values of this render.
TimersEffect(nextAutoRequests, nextIntervalMs, refs) ==
  LET cleared == {t \in intervalTimers :
                    \A i \in 1..Len(autoRequestTimersRef) :
                      autoRequestTimersRef[i].v # t.id}
  IN ArmTimers(nextAutoRequests, nextIntervalMs, refs,
       [registry |-> EmptyObj, timers |-> cleared,
        fl |-> [inFlight |-> autoRequestInFlightRef, pending |-> pending]])

\* The first character of the response of an entry the history effect read
\* from localStorage at mount: an entry of an earlier session.
StoredMark == <<"s">>

\* The entries of hist that requests of this session added.
SessionEntries(hist) ==
  Cardinality({i \in 1..Len(hist) : ~StartsWith(hist[i].response, StoredMark)})

\* At most MaxDispatch requests are dispatched in one behaviour.
WithinDispatchBound(nextPending) ==
  BagCardinality(nextPending) + SessionEntries(history) <= MaxDispatch

\* toggleAutoRequest(selectedEndpoint, enabled) from the checkbox of the
\* request panel, and the effects of the render that follows.
ToggleAutoRequest ==
  /\ selectedEndpoint # Null
  /\ LET key == endpointKey(selectedEndpoint)
         enabled == ~ObjTrue(autoRequests, key)
         nextDrafts == IF enabled /\ ~ObjHas(endpointDrafts, key)
                         THEN ObjSet(endpointDrafts, key,
                                     buildDraftFromEndpoint(selectedEndpoint))
                         ELSE endpointDrafts
         nextAuto == ObjSet(autoRequests, key, enabled)
     IN /\ endpointDrafts' = nextDrafts
        /\ draftsRef' = nextDrafts
        /\ autoRequests' = nextAuto
        /\ \E st \in {TimersEffect(nextAuto, autoRequestIntervalMs,
                                   [drafts |-> nextDrafts, cols |-> collectionsRef])} :
              /\ autoRequestTimersRef' = st.registry
              /\ intervalTimers' = st.timers
              /\ autoRequestInFlightRef' = st.fl.inFlight
              /\ pending' = st.fl.pending
  /\ WithinDispatchBound(pending')
  /\ lastEvent' = [type |-> "toggle", key |-> endpointKey(selectedEndpoint),
                   enabled |-> ObjTrue(autoRequests', endpointKey(selectedEndpoint)),
                   inFlight |-> ObjTrue(autoRequestInFlightRef,
                                        endpointKey(selectedEndpoint)),
                   sent |-> BagCardinality(pending') - BagCardinality(pending)]
  /\ UNCHANGED <<syncVars, panelVars, autoRequestIntervalMs, history>>

\* setAutoRequestIntervalMs(value) from the interval <select> of the request
\* panel (enabled while an endpoint is selected; onChange fires on a change
\* of value), and the effects of the render that follows.
ChangeInterval(value) ==
  /\ selectedEndpoint # Null
  /\ value # autoRequestIntervalMs
  /\ autoRequestIntervalMs' = value
  /\ \E st \in {TimersEffect(autoRequests, value,
                              [drafts |-> draftsRef, cols |-> collectionsRef])} :
        /\ autoRequestTimersRef' = st.registry
        /\ intervalTimers' = st.timers
        /\ autoRequestInFlightRef' = st.fl.inFlight
        /\ pending' = st.fl.pending
  /\ WithinDispatchBound(pending')
  /\ lastEvent' = [type |-> "interval",
                   sent |-> BagCardinality(pending') - BagCardinality(pending)]
  /\ UNCHANGED <<syncVars, panelVars, draftVars, autoRequests, history>>

\* A live interval timer fires.
Tick(timer) ==
  /\ timer \in intervalTimers
  /\ \E fl \in {TriggerKey([inFlight |-> autoRequestInFlightRef, pending |-> pending],
                            timer.key,
                            [drafts |-> draftsRef, cols |-> collectionsRef])} :
        /\ autoRequestInFlightRef' = fl.inFlight
        /\ pending' = fl.pending
  /\ WithinDispatchBound(pending')
  /\ lastEvent' = [type |-> "tick", key |-> timer.key,
                   inFlight |-> ObjTrue(autoRequestInFlightRef, timer.key),
                   sent |-> BagCardinality(pending') - BagCardinality(pending)]
  /\ UNCHANGED <<syncVars, panelVars, draftVars, timerVars, history>>

\* The history entry when it reads the draft as of the completion.
BackgroundEntry_LiveDraft(call, response) ==
  LET Entry(draft) ==
        [method |-> call.method,
         url |-> call.path,
         resolved_url |-> call.finalUrl,
         params |-> draft.params,
         body |-> draft.body,
         body_type |-> draft.bodyType,
         form_values |-> Undefined,
         file_values |-> Undefined,
         response |-> response]
  IN Entry(DraftFor(draftsRef, findEndpointByKey(collectionsRef, call.key)))

\* The history entry runBackgroundRequest adds for a call and its response.
BackgroundEntry(call, response) ==
  [method |-> call.method,
   url |-> call.path,
   resolved_url |-> call.finalUrl,
   params |-> call.draft.params,
   body |-> IF isFormBodyType(call.draft.bodyType) THEN <<>> ELSE call.draft.body,
   body_type |-> call.draft.bodyType,
   form_values |-> IF isFormBodyType(call.draft.bodyType)
                     THEN call.draft.formValues ELSE Undefined,
   file_values |-> IF isFormBodyType(call.draft.bodyType)
                     THEN call.draft.fileValues ELSE Undefined,
   response |-> response]

ErrorPrefix == <<"E", "r", "r", "o", "r", ":", " ">>

\* A completion that sends the request a skipped tick had asked for.
RequestResolves_Requeue(call, res) ==
  /\ BagIn(call, pending)
  /\ pending' = pending
  /\ history' = addHistoryEntry(history, BackgroundEntry(call, res))
  /\ autoRequestInFlightRef' = autoRequestInFlightRef
  /\ lastEvent' = [type |-> "resolve", key |-> call.key]
  /\ UNCHANGED <<syncVars, panelVars, draftVars, timerVars>>

\* runBackgroundRequest after its await: invoke("request") resolved with res.
RequestResolves(call, res) ==
  /\ BagIn(call, pending)
  /\ pending' = pending (-) SetToBag({call})
  /\ history' = addHistoryEntry(history, BackgroundEntry(call, res))
  /\ autoRequestInFlightRef' = ObjSet(autoRequestInFlightRef, call.key, FALSE)
  /\ lastEvent' = [type |-> "resolve", key |-> call.key]
  /\ UNCHANGED <<syncVars, panelVars, draftVars, timerVars>>

\* runBackgroundRequest after its await: invoke("request") rejected with error.
RequestRejects(call, error) ==
  /\ BagIn(call, pending)
  /\ pending' = pending (-) SetToBag({call})
  /\ history' = addHistoryEntry(history, BackgroundEntry(call, ErrorPrefix \o error))
  /\ autoRequestInFlightRef' = ObjSet(autoRequestInFlightRef, call.key, FALSE)
  /\ lastEvent' = [type |-> "reject", key |-> call.key]
  /\ UNCHANGED <<syncVars, panelVars, draftVars, timerVars>>

\* ------------------------------------------------------------------------
\* The request panel: selecting an endpoint and editing its draft.
\* ------------------------------------------------------------------------

\* selectEndpoint(endpoint, collectionUrl) for an endpoint the sidebar lists.
selectEndpoint(endpoint, collectionUrl) ==
  LET key == endpointKey(endpoint)
      draft == IF ObjHas(endpointDrafts, key) THEN ObjGet(endpointDrafts, key)
               ELSE buildDraftFromEndpoint(endpoint)
      resolvedBodyType ==
        IF endpoint.body_media_types = Undefined
             \/ ArrayIncludes(endpoint.body_media_types, draft.bodyType)
          THEN draft.bodyType
          ELSE defaultBodyType(endpoint)
      nextDraft == [draft EXCEPT !.bodyType = resolvedBodyType]
      nextDrafts == ObjSet(endpointDrafts, key, nextDraft)
  IN /\ selectedEndpoint' = endpoint
     /\ method' = endpoint.method
     /\ url' = resolveEndpointUrl(endpoint, collectionUrl)
     /\ paramValues' = draft.params
     /\ requestBody' = draft.body
     /\ bodyType' = resolvedBodyType
     /\ formValues' = nextDraft.formValues
     /\ fileValues' = nextDraft.fileValues
     /\ endpointDrafts' = nextDrafts
     /\ draftsRef' = nextDrafts
     /\ lastEvent' = [type |-> "select"]
     /\ UNCHANGED <<syncVars, timerVars, flightVars, history>>

\* The user clicks an endpoint of the sidebar.
SelectEndpoint ==
  \E i \in 1..Len(collections) :
    \E j \in 1..Len(CollectionEndpoints(collections[i].v)) :
      selectEndpoint(CollectionEndpoints(collections[i].v)[j], collections[i].v.url)

\* endpointDrafts after updateDraftForSelected(...).
updateDraftForSelected(nextParams, nextBody, nextBodyType, nextFormValues, nextFileValues) ==
  IF selectedEndpoint = Null THEN endpointDrafts
  ELSE ObjSet(endpointDrafts, endpointKey(selectedEndpoint),
              [params |-> nextParams, body |-> nextBody, bodyType |-> nextBodyType,
               formValues |-> nextFormValues, fileValues |-> nextFileValues])

\* onParamChange(name, value): the user edits the field of a parameter of the
\* selected endpoint.
OnParamChange(name, value) ==
  /\ selectedEndpoint # Null
  /\ \E i \in 1..Len(selectedEndpoint.parameters) :
       selectedEndpoint.parameters[i].name = name
  /\ LET next == ObjSet(paramValues, name, value)
         nextDrafts == updateDraftForSelected(next, requestBody, bodyType,
                                              formValues, fileValues)
     IN /\ paramValues' = next
        /\ endpointDrafts' = nextDrafts
        /\ draftsRef' = nextDrafts
  /\ lastEvent' = [type |-> "edit"]
  /\ UNCHANGED <<syncVars, selectedEndpoint, method, url, requestBody, bodyType,
                 formValues, fileValues, timerVars, flightVars, history>>

\* ------------------------------------------------------------------------
\* The polling specification: one imported collection, auto requests.
\* ------------------------------------------------------------------------

\* The state after ColA was imported and the sync status was reset.
InitPoll ==
  /\ collections = <<[k |-> UrlA, v |-> ColA]>>
  /\ collectionsRef = <<[k |-> UrlA, v |-> ColA]>>
  /\ openApiUrl = <<>>
  /\ openApiHistory = <<UrlA>>
  /\ isImporting = FALSE
  /\ syncStatus = "idle"
  /\ lastSyncedAt = <<1>>
  /\ syncTimeoutRef = <<1>>
  /\ timeouts = {}
  /\ imports = EmptyBag
  /\ toggles = EmptyBag
  /\ clock = 1
  /\ selectedEndpoint = Null
  /\ method = "GET"
  /\ url = <<>>
  /\ paramValues = EmptyObj
  /\ requestBody = <<>>
  /\ bodyType = "application/json"
  /\ formValues = EmptyObj
  /\ fileValues = EmptyObj
  /\ endpointDrafts = EmptyObj
  /\ draftsRef = EmptyObj
  /\ autoRequests = EmptyObj
  /\ autoRequestIntervalMs = defaultAutoRequestIntervalMs
  /\ autoRequestTimersRef = EmptyObj
  /\ intervalTimers = {}
  /\ autoRequestInFlightRef = EmptyObj
  /\ pending = EmptyBag
  /\ history = <<>>
  /\ lastEvent = [type |-> "init"]

\* Values the user types into a parameter field.
ParamInputs == {<<"8">>, <<LoneSurrogate>>}

\* Responses and errors of invoke("request").
Responses == {<<"o", "k">>}

Errors == {<<"d", "o", "w", "n">>}

\* The intervals the user picks in the polling specification.
PollIntervals == {30000, 60000}

NextPoll ==
  \/ SelectEndpoint
  \/ \E value \in ParamInputs : OnParamChange(<<"i">>, value)
  \/ ToggleAutoRequest
  \/ \E value \in PollIntervals : ChangeInterval(value)
  \/ \E timer \in intervalTimers : Tick(timer)
  \/ \E call \in BagToSet(pending) : \E res \in Responses : RequestResolves(call, res)
  \/ \E call \in BagToSet(pending) : \E error \in Errors : RequestRejects(call, error)

SpecPoll == InitPoll /\ [][NextPoll]_vars

\* ------------------------------------------------------------------------
\* Properties of auto requests.
\* ------------------------------------------------------------------------

ModelEndpoints == {EpGet, EpPost}

Keys == {endpointKey(endpoint) : endpoint \in ModelEndpoints}

\* How many calls of a bag are for key.
CallsFor(bag, key) ==
  LET calls == {call \in BagToSet(bag) : call.key = key}
  IN IF calls = {} THEN 0 ELSE BagCardinality([call \in calls |-> bag[call]])

TimersFor(key) == {timer \in intervalTimers : timer.key = key}

\* C1: for every endpoint key at most one auto request is in flight at any
\* time, and a tick that arrives while a request for its key is in flight
\* dispatches nothing.
C1_AtMostOneInFlight ==
  /\ \A key \in Keys : CallsFor(pending, key) <= 1
  /\ lastEvent.type = "tick" /\ lastEvent.inFlight => lastEvent.sent = 0

\* A tick arrived while the request for its key was in flight, and that
\* request is still the only one.
C1_Witness ==
  /\ lastEvent.type = "tick"
  /\ lastEvent.inFlight
  /\ CallsFor(pending, lastEvent.key) = 1

\* C2: enabling polling for an endpoint dispatches one request at once, and
\* every tick of its timer dispatches one request, unless a request for the
\* endpoint is in flight.
C2_EnableAndTicksDispatch ==
  /\ lastEvent.type = "toggle" /\ lastEvent.enabled /\ ~lastEvent.inFlight
       => CallsFor(pending, lastEvent.key) = 1
  /\ lastEvent.type = "tick" /\ ~lastEvent.inFlight => lastEvent.sent = 1

\* C3: after polling is disabled for an endpoint no auto request is
\* dispatched for it until it is enabled again: every step that dispatches a
\* request for a key leaves the key enabled, and every live timer belongs to
\* an enabled key.
C3_NoDispatchWhileDisabled ==
  [][/\ \A key \in Keys :
          CallsFor(pending', key) > CallsFor(pending, key)
            => ObjTrue(autoRequests', key)
     /\ \A timer \in intervalTimers' : ObjTrue(autoRequests', timer.key)]_vars

\* Polling was just disabled for an endpoint that has polled, while another
\* endpoint goes on polling.
C3_Witness ==
  /\ lastEvent.type = "toggle"
  /\ ~lastEvent.enabled
  /\ TimersFor(lastEvent.key) = {}
  /\ intervalTimers # {}
  /\ \E i \in 1..Len(history) :
       <<history[i].method, ":">> \o history[i].url = lastEvent.key

\* The history entry at the head of hist is the one of call.
EntryOf(hist, call) ==
  /\ hist # <<>>
  /\ Head(hist).method = call.method
  /\ Head(hist).url = call.path
  /\ Head(hist).resolved_url = call.finalUrl

\* C4: disabling polling does not cancel a request in flight: a call leaves
\* the calls in flight only by completing, and its completion puts its entry
\* at the head of the history whether or not its key is still enabled.
C4_InFlightCompletesAfterDisable ==
  [][\A call \in BagToSet(pending) :
       \/ CopiesIn(call, pending') >= CopiesIn(call, pending)
       \/ /\ CopiesIn(call, pending') = CopiesIn(call, pending) - 1
          /\ EntryOf(history', call)
          /\ history' = addHistoryEntry(history, Head(history'))]_vars

\* A request completed and entered the history while polling was disabled
\* for its endpoint.
C4_Witness ==
  /\ lastEvent.type \in {"resolve", "reject"}
  /\ ObjHas(autoRequests, lastEvent.key)
  /\ ~ObjTrue(autoRequests, lastEvent.key)
  /\ history # <<>>
  /\ <<Head(history).method, ":">> \o Head(history).url = lastEvent.key

\* The draft and the payload a dispatch for key reads from the refs.
DispatchReads(call, drafts, cols) ==
  LET Reads(endpoint) ==
        LET Built(draft) ==
              /\ call.draft = draft
              /\ call.method = endpoint.method
              /\ call.path = endpoint.path
              /\ call.finalUrl = BackgroundPayload(endpoint, draft, cols).finalUrl
        IN Built(DraftFor(drafts, endpoint))
  IN Reads(findEndpointByKey(cols, call.key))

\* C5: a dispatch builds its request from the draft as of the dispatch, and
\* the history entry of its completion records the method, path, resolved
\* URL, params and body of that dispatch, whatever the draft is by then.
C5_EntryRecordsDispatchDraft ==
  [][\A call \in BagToSet(pending) \cup BagToSet(pending') :
       /\ CopiesIn(call, pending') > CopiesIn(call, pending)
            => DispatchReads(call, draftsRef', collectionsRef')
       /\ CopiesIn(call, pending') < CopiesIn(call, pending)
            => /\ EntryOf(history', call)
               /\ Head(history').params = call.draft.params
               /\ Head(history').body_type = call.draft.bodyType
               /\ Head(history').body =
                    IF isFormBodyType(call.draft.bodyType)
                    THEN <<>> ELSE call.draft.body]_vars

\* A request completed after its draft was edited in flight: the entry holds
\* the params of the dispatch, not those of the draft.
C5_Witness ==
  /\ lastEvent.type \in {"resolve", "reject"}
  /\ history # <<>>
  /\ ObjHas(draftsRef, lastEvent.key)
  /\ Head(history).params # ObjGet(draftsRef, lastEvent.key).params

\* Some history entry of key records a failure.
HasFailureFor(key) ==
  \E i \in 1..Len(history) :
    /\ <<history[i].method, ":">> \o history[i].url = key
    /\ StartsWith(history[i].response, ErrorPrefix)

\* C6: a failed auto request is recorded with an "Error: " response and does
\* not stop polling: the in-flight flag is cleared, the timer stays, and a
\* tick after the failure dispatches a new request.
C6_FailureKeepsPolling ==
  /\ lastEvent.type = "reject"
       => /\ StartsWith(Head(history).response, ErrorPrefix)
          /\ ~ObjTrue(autoRequestInFlightRef, lastEvent.key)
  /\ lastEvent.type = "tick" /\ HasFailureFor(lastEvent.key)
       /\ ~lastEvent.inFlight
       => lastEvent.sent = 1

\* C7: the completion of an auto request dispatches nothing; the calls for a
\* key grow by at most one in a step, and only at a tick of the key's timer
\* or at a run of the timers effect.
C7_NoCatchUp ==
  [][/\ \A key \in Keys :
          /\ CallsFor(pending', key) <= CallsFor(pending, key) + 1
          /\ CallsFor(pending', key) > CallsFor(pending, key)
               => /\ lastEvent'.type \in {"tick", "toggle", "interval"}
                  /\ lastEvent'.type = "tick" => lastEvent'.key = key
     /\ lastEvent'.type \in {"resolve", "reject"}
          => CallsFor(pending', lastEvent'.key) = 0]_vars

\* A request completed while its timer is live, and nothing is in flight for
\* its key.
C7_Witness ==
  /\ lastEvent.type \in {"resolve", "reject"}
  /\ TimersFor(lastEvent.key) # {}
  /\ CallsFor(pending, lastEvent.key) = 0
  /\ Len(history) = MaxDispatch

\* C8: every live timer runs at autoRequestIntervalMs, every enabled key has
\* exactly one live timer, no other key has one, and the registry holds
\* exactly the live timers.
C8_TimersUseCurrentInterval ==
  /\ \A timer \in intervalTimers :
       /\ timer.interval = autoRequestIntervalMs
       /\ ObjHas(autoRequestTimersRef, timer.key)
       /\ ObjGet(autoRequestTimersRef, timer.key) = timer.id
  /\ \A key \in Keys :
       Cardinality(TimersFor(key)) = IF ObjTrue(autoRequests, key) THEN 1 ELSE 0
  /\ Len(autoRequestTimersRef) = Cardinality(intervalTimers)

\* The interval was changed while two endpoints were polling.
C8_Witness ==
  /\ lastEvent.type = "interval"
  /\ Cardinality(intervalTimers) = 2
  /\ autoRequestIntervalMs # defaultAutoRequestIntervalMs

\* ------------------------------------------------------------------------
\* OpenAPI import and sync status.
\* ------------------------------------------------------------------------

\* A second collection, and the first one as the backend re-fetched it.
ColB ==
  [name |-> "B", url |-> UrlB, sync_enabled |-> TRUE,
   groups |-> <<[k |-> "misc", v |-> <<EpPost>>]>>]

ColA2 ==
  [name |-> "A", url |-> UrlA, sync_enabled |-> TRUE,
   groups |-> <<[k |-> "pets", v |-> <<EpGet>>]>>]

\* The smallest timer id window.setTimeout has not handed out among the ids
\* still known.
FreshTimeoutId(known) ==
  CHOOSE id \in 1..(Cardinality(known) + 1) : id \notin known

\* scheduleSyncReset without the clearTimeout call.
scheduleSyncReset_NoClear(st) ==
  LET Schedule(live, known) ==
        [ref |-> <<FreshTimeoutId(known)>>,
         timeouts |-> live \cup {FreshTimeoutId(known)}]
  IN IF st.ref # NullNum
     THEN Schedule(st.timeouts, st.timeouts \cup {st.ref[1]})
     ELSE Schedule(st.timeouts, st.timeouts)

\* scheduleSyncReset applied to st = [ref, timeouts]: clear the timeout the
\* ref holds and start a new one.
scheduleSyncReset(st) ==
  LET Schedule(live, known) ==
        [ref |-> <<FreshTimeoutId(known)>>,
         timeouts |-> live \cup {FreshTimeoutId(known)}]
  IN IF st.ref # NullNum
     THEN Schedule(st.timeouts \ {st.ref[1]}, st.timeouts \cup {st.ref[1]})
     ELSE Schedule(st.timeouts, st.timeouts)

NotItem(item, removed) == item # removed

\* updateOpenApiHistory: put the url first, drop its older copy, keep 8.
updateOpenApiHistory(prev, importedUrl) ==
  LET Keep(item) == NotItem(item, importedUrl)
      Slice(next) == SubSeq(next, 1, IF Len(next) < maxOpenApiHistoryEntries
                                      THEN Len(next)
                                      ELSE maxOpenApiHistoryEntries)
  IN Slice(<<importedUrl>> \o SelectSeq(prev, Keep))

\* The import button disabled by an empty URL field only.
ImportDisabled_UrlOnly == Trim(openApiUrl) = <<>>

\* The Sidebar's import button is disabled.
ImportDisabled == isImporting \/ Trim(openApiUrl) = <<>>

\* onOpenApiUrlChange / onSelectOpenApiHistory: setOpenApiUrl(value).
OnOpenApiUrlChange(value) ==
  /\ value # openApiUrl
  /\ openApiUrl' = value
  /\ lastEvent' = [type |-> "url"]
  /\ UNCHANGED <<toggles,
                 collections, collectionsRef, openApiHistory, isImporting,
                 syncStatus, lastSyncedAt, syncTimeoutRef, timeouts, imports,
                 clock, panelVars, draftVars, timerVars, flightVars, history>>

\* A click on the import button; importOpenApi up to its await when the
\* button is enabled, nothing when it is disabled.
ClickImport ==
  /\ IF ImportDisabled
     THEN UNCHANGED <<syncStatus, isImporting, imports>>
     ELSE /\ syncStatus' = "syncing"
          /\ isImporting' = TRUE
          /\ imports' = imports (+) SetToBag({[url |-> Trim(openApiUrl)]})
  /\ lastEvent' = [type |-> "import", from |-> syncStatus,
                   started |-> ~ImportDisabled]
  /\ UNCHANGED <<toggles,
                 collections, collectionsRef, openApiUrl, openApiHistory,
                 lastSyncedAt, syncTimeoutRef, timeouts, clock, panelVars,
                 draftVars, timerVars, flightVars, history>>

\* importOpenApi after its await: import_openapi resolved with col.
ImportResolves(call, col) ==
  /\ BagIn(call, imports)
  /\ imports' = imports (-) SetToBag({call})
  /\ collections' = ObjSet(collections, col.url, col)
  /\ collectionsRef' = collections'
  /\ openApiHistory' = updateOpenApiHistory(openApiHistory, call.url)
  /\ lastSyncedAt' = <<clock>>
  /\ syncStatus' = "updated"
  /\ \E st \in {scheduleSyncReset([ref |-> syncTimeoutRef,
                                   timeouts |-> timeouts])} :
       /\ syncTimeoutRef' = st.ref
       /\ timeouts' = st.timeouts
  /\ openApiUrl' = <<>>
  /\ isImporting' = FALSE
  /\ lastEvent' = [type |-> "imported", from |-> syncStatus, col |-> col]
  /\ UNCHANGED <<toggles,
                 clock, panelVars, draftVars, timerVars, flightVars, history>>

\* An import failure that also discards the collections imported before.
ImportRejects_DropsCollections(call) ==
  /\ BagIn(call, imports)
  /\ imports' = imports (-) SetToBag({call})
  /\ syncStatus' = "idle"
  /\ isImporting' = FALSE
  /\ collections' = EmptyObj
  /\ collectionsRef' = EmptyObj
  /\ lastEvent' = [type |-> "import-failed", from |-> syncStatus]
  /\ UNCHANGED <<toggles,
                 openApiUrl, openApiHistory, lastSyncedAt, syncTimeoutRef,
                 timeouts, clock, panelVars, draftVars, timerVars, flightVars,
                 history>>

\* An import failure that leaves the status alone.
ImportRejects_KeepsStatus(call) ==
  /\ BagIn(call, imports)
  /\ imports' = imports (-) SetToBag({call})
  /\ isImporting' = FALSE
  /\ lastEvent' = [type |-> "import-failed", from |-> syncStatus]
  /\ UNCHANGED <<toggles,
                 collections, collectionsRef, openApiUrl, openApiHistory,
                 syncStatus, lastSyncedAt, syncTimeoutRef, timeouts, clock,
                 panelVars, draftVars, timerVars, flightVars, history>>

\* importOpenApi after its await: import_openapi rejected.
ImportRejects(call) ==
  /\ BagIn(call, imports)
  /\ imports' = imports (-) SetToBag({call})
  /\ syncStatus' = "idle"
  /\ isImporting' = FALSE
  /\ lastEvent' = [type |-> "import-failed", from |-> syncStatus]
  /\ UNCHANGED <<toggles,
                 collections, collectionsRef, openApiUrl, openApiHistory,
                 lastSyncedAt, syncTimeoutRef, timeouts, clock, panelVars,
                 draftVars, timerVars, flightVars, history>>

\* { ...prev, [col.url]: col } when it merges the groups of the old entry.
MergeCollection(prev, col) ==
  IF ObjHas(prev, col.url)
    THEN ObjSet(prev, col.url,
                [col EXCEPT !.groups = ObjGet(prev, col.url).groups \o @])
    ELSE ObjSet(prev, col.url, col)

\* The listener when it merges the update into the stored collection.
OnCollectionUpdated_Merges(col) ==
  /\ collections' = MergeCollection(collections, col)
  /\ collectionsRef' = collections'
  /\ lastSyncedAt' = <<clock>>
  /\ syncStatus' = "updated"
  /\ \E st \in {scheduleSyncReset([ref |-> syncTimeoutRef,
                                   timeouts |-> timeouts])} :
       /\ syncTimeoutRef' = st.ref
       /\ timeouts' = st.timeouts
  /\ lastEvent' = [type |-> "collection-updated", from |-> syncStatus,
                   col |-> col]
  /\ UNCHANGED <<toggles,
                 openApiUrl, openApiHistory, isImporting, imports, clock,
                 panelVars, draftVars, timerVars, flightVars, history>>

\* The "collection-updated" listener.
OnCollectionUpdated(col) ==
  /\ collections' = ObjSet(collections, col.url, col)
  /\ collectionsRef' = collections'
  /\ lastSyncedAt' = <<clock>>
  /\ syncStatus' = "updated"
  /\ \E st \in {scheduleSyncReset([ref |-> syncTimeoutRef,
                                   timeouts |-> timeouts])} :
       /\ syncTimeoutRef' = st.ref
       /\ timeouts' = st.timeouts
  /\ lastEvent' = [type |-> "collection-updated", from |-> syncStatus,
                   col |-> col]
  /\ UNCHANGED <<toggles,
                 openApiUrl, openApiHistory, isImporting, imports, clock,
                 panelVars, draftVars, timerVars, flightVars, history>>

\* The timeout scheduleSyncReset started fires.
SyncResetFires(id) ==
  /\ id \in timeouts
  /\ timeouts' = timeouts \ {id}
  /\ syncStatus' = "idle"
  /\ lastEvent' = [type |-> "sync-reset", from |-> syncStatus]
  /\ UNCHANGED <<toggles,
                 collections, collectionsRef, openApiUrl, openApiHistory,
                 isImporting, lastSyncedAt, syncTimeoutRef, imports, clock,
                 panelVars, draftVars, timerVars, flightVars, history>>

\* Time passes.
ClockAdvances ==
  /\ clock < MaxClock
  /\ clock' = clock + 1
  /\ lastEvent' = [type |-> "clock"]
  /\ UNCHANGED <<toggles,
                 collections, collectionsRef, openApiUrl, openApiHistory,
                 isImporting, syncStatus, lastSyncedAt, syncTimeoutRef,
                 timeouts, imports, panelVars, draftVars, timerVars,
                 flightVars, history>>

UrlInputs == {<<>>, <<" ">>, UrlA, UrlB}

SyncCollections == {ColA, ColA2, ColB}

NextSync ==
  \/ \E value \in UrlInputs : OnOpenApiUrlChange(value)
  \/ ClickImport
  \/ \E call \in BagToSet(imports), col \in SyncCollections :
       ImportResolves(call, col)
  \/ \E call \in BagToSet(imports) : ImportRejects(call)
  \/ \E col \in SyncCollections : OnCollectionUpdated(col)
  \/ \E id \in timeouts : SyncResetFires(id)
  \/ ClockAdvances

SpecSync == Init /\ [][NextSync]_vars

\* The ids the sync reset timeouts take: a new timeout never reuses the id
\* the ref holds, and at most one timeout is pending.
TimeoutIds == 1..2

\* A pending timeout fires unless clearTimeout removes it first.
SpecSyncLive ==
  SpecSync /\ \A id \in TimeoutIds : WF_vars(SyncResetFires(id))

\* ------------------------------------------------------------------------
\* Properties of the sync status.
\* ------------------------------------------------------------------------

\* C9 as stated: the sync status moves only along idle -> syncing,
\* syncing -> updated, syncing -> idle and updated -> idle.
C9_StatusTransitions ==
  [][syncStatus' # syncStatus
       => <<syncStatus, syncStatus'>> \in
            {<<"idle", "syncing">>, <<"syncing", "updated">>,
             <<"syncing", "idle">>, <<"updated", "idle">>}]_vars

\* C9 amended: the sync status is set by its trigger, whatever it was
\* before: it becomes 'syncing' exactly when an import starts, 'updated'
\* exactly when an import succeeds or a collection-updated event arrives,
\* and 'idle' exactly when an import fails or the reset timer fires.
C9_StatusByTrigger ==
  [][/\ lastEvent'.type = "import" /\ lastEvent'.started
          => syncStatus' = "syncing"
     /\ lastEvent'.type \in {"imported", "collection-updated"}
          => syncStatus' = "updated"
     /\ lastEvent'.type \in {"import-failed", "sync-reset"}
          => syncStatus' = "idle"
     /\ syncStatus' # syncStatus
          => \/ lastEvent'.type = "import" /\ lastEvent'.started
             \/ lastEvent'.type \in {"imported", "collection-updated",
                                     "import-failed", "sync-reset"}]_vars

\* A collection-updated event moved the status from 'idle' to 'updated'.
C9_Witness ==
  /\ lastEvent.type = "collection-updated"
  /\ lastEvent.from = "idle"
  /\ syncStatus = "updated"

\* C10: at most one import is in flight at any time, the status is
\* 'syncing' only while one is, and a click on the import button while the
\* status is 'syncing' starts no second import.
C10_AtMostOneImport ==
  /\ BagCardinality(imports) <= 1
  /\ isImporting <=> BagCardinality(imports) = 1
  /\ syncStatus = "syncing" => isImporting
  /\ lastEvent.type = "import" /\ lastEvent.from = "syncing"
       => ~lastEvent.started

\* The import button was clicked with a URL in the field while an import was
\* in flight and the status 'syncing': the click was dropped.
C10_Witness ==
  /\ lastEvent.type = "import"
  /\ lastEvent.from = "syncing"
  /\ ~lastEvent.started
  /\ Trim(openApiUrl) # <<>>
  /\ BagCardinality(imports) = 1

\* C11: a failed import commits nothing: neither the start of an import nor
\* its failure changes the collections, the OpenAPI URL history or
\* lastSyncedAt, and the failure sets the status to 'idle' and isImporting
\* to false.
C11_FailedImportCommitsNothing ==
  [][/\ lastEvent'.type \in {"import", "import-failed"}
          => /\ collections' = collections
             /\ collectionsRef' = collectionsRef
             /\ openApiHistory' = openApiHistory
             /\ lastSyncedAt' = lastSyncedAt
     /\ lastEvent'.type = "import-failed"
          => syncStatus' = "idle" /\ ~isImporting']_vars

\* An import failed after another collection had been imported: that
\* collection, the URL history and lastSyncedAt are still there.
C11_Witness ==
  /\ lastEvent.type = "import-failed"
  /\ collections # EmptyObj
  /\ openApiHistory # <<>>
  /\ lastSyncedAt # NullNum
  /\ syncStatus = "idle"
  /\ ~isImporting

\* C12: a successful import or a collection-updated event carrying col
\* stores exactly col under col.url and leaves every other entry as it was;
\* no other step changes the collections, and every key of the map is the
\* url of the collection stored under it.
C12_ReplacedWholesale ==
  [][/\ lastEvent'.type \in {"imported", "collection-updated"}
          => /\ ObjHas(collections', lastEvent'.col.url)
             /\ ObjGet(collections', lastEvent'.col.url) = lastEvent'.col
             /\ \A i \in 1..Len(collections) :
                  collections[i].k # lastEvent'.col.url
                    => /\ ObjHas(collections', collections[i].k)
                       /\ ObjGet(collections', collections[i].k) = collections[i].v
             /\ Len(collections') =
                  IF ObjHas(collections, lastEvent'.col.url)
                  THEN Len(collections) ELSE Len(collections) + 1
     /\ lastEvent'.type \notin {"imported", "collection-updated"}
          => collections' = collections
     /\ \A i \in 1..Len(collections') :
          collections'[i].k = collections'[i].v.url]_vars

\* An update replaced a stored collection by one with other groups while
\* another collection was stored too.
C12_Witness ==
  /\ lastEvent.type \in {"imported", "collection-updated"}
  /\ lastEvent.col = ColA2
  /\ Len(collections) = 2
  /\ ObjGet(collections, UrlA) = ColA2
  /\ ObjGet(collections, UrlB) = ColB

\* C13: at most one reset timeout is pending and it is the one the ref
\* holds whenever the status is 'updated'; and a status 'updated' whose
\* window was started by timeout id leaves 'updated' unless a newer update
\* restarts the window with another timeout.
C13_UpdatedResets ==
  /\ [](/\ Cardinality(timeouts) <= 1
        /\ syncStatus = "updated"
             => syncTimeoutRef # NullNum /\ timeouts = {syncTimeoutRef[1]})
  /\ \A id \in TimeoutIds :
       (syncStatus = "updated" /\ syncTimeoutRef = <<id>>)
         ~> (syncStatus # "updated" \/ syncTimeoutRef # <<id>>)

\* A newer update arrived while the status was 'updated': one timeout is
\* pending, the one of the newer update.
C13_Witness ==
  /\ lastEvent.type = "collection-updated"
  /\ lastEvent.from = "updated"
  /\ syncStatus = "updated"
  /\ Cardinality(timeouts) = 1

\* ------------------------------------------------------------------------
\* The per-collection sync toggle.
\* ------------------------------------------------------------------------

SyncUrls == {UrlA, UrlB}

\* onToggleCollectionSync(url, enabled) up to its await.
OnToggleCollectionSync(toggledUrl, enabled) ==
  /\ BagCardinality(toggles) < MaxToggles
  /\ toggles' = toggles (+) SetToBag({[url |-> toggledUrl, enabled |-> enabled]})
  /\ lastEvent' = [type |-> "sync-toggle", url |-> toggledUrl]
  /\ UNCHANGED <<collections, collectionsRef, openApiUrl, openApiHistory,
                 isImporting, syncStatus, lastSyncedAt, syncTimeoutRef,
                 timeouts, imports, clock, panelVars, draftVars, timerVars,
                 flightVars, history>>

\* The updater of setCollections in onToggleCollectionSync.
WithSyncEnabled(prev, toggledUrl, enabled) ==
  IF ~ObjHas(prev, toggledUrl) THEN prev
  ELSE ObjSet(prev, toggledUrl,
              [ObjGet(prev, toggledUrl) EXCEPT !.sync_enabled = enabled])

\* The updater when it writes the flag of every collection.
WithSyncEnabled_All(prev, toggledUrl, enabled) ==
  [i \in 1..Len(prev) |->
     [k |-> prev[i].k, v |-> [prev[i].v EXCEPT !.sync_enabled = enabled]]]

\* A resolved toggle that writes the flag of every collection.
ToggleResolves_All(call) ==
  /\ BagIn(call, toggles)
  /\ toggles' = toggles (-) SetToBag({call})
  /\ collections' = WithSyncEnabled_All(collections, call.url, call.enabled)
  /\ collectionsRef' = collections'
  /\ lastEvent' = [type |-> "sync-toggled", url |-> call.url,
                   enabled |-> call.enabled]
  /\ UNCHANGED <<openApiUrl, openApiHistory, isImporting, syncStatus,
                 lastSyncedAt, syncTimeoutRef, timeouts, imports, clock,
                 panelVars, draftVars, timerVars, flightVars, history>>

\* onToggleCollectionSync after its await: toggle_sync resolved.
ToggleResolves(call) ==
  /\ BagIn(call, toggles)
  /\ toggles' = toggles (-) SetToBag({call})
  /\ collections' = WithSyncEnabled(collections, call.url, call.enabled)
  /\ collectionsRef' = collections'
  /\ lastEvent' = [type |-> "sync-toggled", url |-> call.url,
                   enabled |-> call.enabled]
  /\ UNCHANGED <<openApiUrl, openApiHistory, isImporting, syncStatus,
                 lastSyncedAt, syncTimeoutRef, timeouts, imports, clock,
                 panelVars, draftVars, timerVars, flightVars, history>>

\* onToggleCollectionSync after its await: toggle_sync rejected.
ToggleRejects(call) ==
  /\ BagIn(call, toggles)
  /\ toggles' = toggles (-) SetToBag({call})
  /\ lastEvent' = [type |-> "sync-toggle-failed", url |-> call.url]
  /\ UNCHANGED <<collections, collectionsRef, openApiUrl, openApiHistory,
                 isImporting, syncStatus, lastSyncedAt, syncTimeoutRef,
                 timeouts, imports, clock, panelVars, draftVars, timerVars,
                 flightVars, history>>

NextToggle ==
  \/ \E col \in SyncCollections : OnCollectionUpdated(col)
  \/ \E toggledUrl \in SyncUrls, enabled \in BOOLEAN :
       OnToggleCollectionSync(toggledUrl, enabled)
  \/ \E call \in BagToSet(toggles) : ToggleResolves(call)
  \/ \E call \in BagToSet(toggles) : ToggleRejects(call)

SpecToggle == Init /\ [][NextToggle]_vars

\* C14: a resolved sync toggle for a stored url changes only the
\* sync_enabled flag of the collection under that url; a resolved toggle
\* for a url that is not stored, a rejected toggle and the start of a
\* toggle leave the collections as they are.
C14_ToggleTouchesOneFlag ==
  [][/\ lastEvent'.type = "sync-toggled"
          => /\ Len(collections') = Len(collections)
             /\ \A i \in 1..Len(collections) :
                  /\ collections'[i].k = collections[i].k
                  /\ collections'[i].v =
                       IF collections[i].k = lastEvent'.url
                       THEN [collections[i].v EXCEPT
                               !.sync_enabled = lastEvent'.enabled]
                       ELSE collections[i].v
     /\ lastEvent'.type \in {"sync-toggle", "sync-toggle-failed"}
          => collections' = collections]_vars

\* Sync was switched off for one of two stored collections: the other is
\* still enabled and the groups of both are those received.
C14_Witness ==
  /\ lastEvent.type = "sync-toggled"
  /\ ~lastEvent.enabled
  /\ Len(collections) = 2
  /\ ObjHas(collections, lastEvent.url)
  /\ \A i \in 1..Len(collections) :
       /\ collections[i].v.sync_enabled = (collections[i].k # lastEvent.url)
       /\ collections[i].v.groups # <<>>

\* ------------------------------------------------------------------------
\* buildRequestPayload applied to the values of the request panel.
\* ------------------------------------------------------------------------

LowerContentTypeName == ToLowerCase(ContentTypeName)

\* POST /p/{i} with a path parameter, two query parameters declared q then
\* r, and a header parameter named content-type.
EpFull ==
  [method |-> "POST", path |-> <<"/", "p", "/", "{", "i", "}">>,
   parameters |->
     <<[name |-> <<"i">>, in_type |-> "path", example |-> Undefined],
       [name |-> <<"q">>, in_type |-> "query", example |-> Undefined],
       [name |-> <<"r">>, in_type |-> "query", example |-> Undefined],
       [name |-> LowerContentTypeName, in_type |-> "header",
        example |-> Undefined]>>,
   body_example |-> Undefined,
   body_media_types |-> <<"application/json", "multipart/form-data">>,
   body_fields |-> Undefined]

PayloadEndpoints == {Null, EpFull}

PayloadMethods == {"GET", "POST"}

\* URL templates: one placeholder, the same placeholder twice, a URL that
\* already has a query.
PayloadUrls ==
  {<<"/", "p", "/", "{", "i", "}">>,
   <<"/", "{", "i", "}", "/", "{", "i", "}">>,
   <<"/", "p", "?", "x">>}

IsPresent(entry) == entry.v # Undefined

Reverse(seq) == [i \in 1..Len(seq) |-> seq[Len(seq) + 1 - i]]

\* The parameter values the panel may hold: each value absent (Undefined),
\* empty or set, the keys in either insertion order.
PayloadParams ==
  {SelectSeq(IF reversed THEN Reverse(entries) ELSE entries, IsPresent) :
     reversed \in BOOLEAN,
     entries \in
       {<<[k |-> <<"i">>, v |-> iv], [k |-> <<"q">>, v |-> qv],
          [k |-> <<"r">>, v |-> rv], [k |-> LowerContentTypeName, v |-> hv]>> :
          iv \in {Undefined, <<>>, <<"7", " ">>, <<LoneSurrogate>>},
          qv \in {Undefined, <<"1">>},
          rv \in {<<>>, <<"2">>},
          hv \in {Undefined, <<"t">>}}}

PayloadBodies == {<<>>, <<" ">>, <<" ", "x", " ">>}

PayloadBodyTypes ==
  {"application/json", "multipart/form-data",
   "application/x-www-form-urlencoded", ""}

PayloadFormValues ==
  {EmptyObj, <<[k |-> <<"a">>, v |-> <<"1">>], [k |-> <<"b">>, v |-> <<>>]>>}

PayloadFileValues ==
  {EmptyObj,
   <<[k |-> <<"f">>, v |-> <<<<"/", "x">>, <<>>>>],
     [k |-> <<"g">>, v |-> <<<<>>>>]>>}

\* The request panel holding any combination of the inputs.
InitPayload ==
  /\ collections = EmptyObj
  /\ collectionsRef = EmptyObj
  /\ openApiUrl = <<>>
  /\ openApiHistory = <<>>
  /\ isImporting = FALSE
  /\ syncStatus = "idle"
  /\ lastSyncedAt = NullNum
  /\ syncTimeoutRef = NullNum
  /\ timeouts = {}
  /\ imports = EmptyBag
  /\ toggles = EmptyBag
  /\ clock = 0
  /\ selectedEndpoint \in PayloadEndpoints
  /\ method \in PayloadMethods
  /\ url \in PayloadUrls
  /\ paramValues \in PayloadParams
  /\ requestBody \in PayloadBodies
  /\ bodyType \in PayloadBodyTypes
  /\ formValues \in PayloadFormValues
  /\ fileValues \in PayloadFileValues
  /\ endpointDrafts = EmptyObj
  /\ draftsRef = EmptyObj
  /\ autoRequests = EmptyObj
  /\ autoRequestIntervalMs = defaultAutoRequestIntervalMs
  /\ autoRequestTimersRef = EmptyObj
  /\ intervalTimers = {}
  /\ autoRequestInFlightRef = EmptyObj
  /\ pending = EmptyBag
  /\ history = <<>>
  /\ lastEvent = [type |-> "init"]

\* The call of buildRequestPayload in sendRequest, on the values of the
\* panel; the result is kept in lastEvent.
BuildPayload ==
  /\ lastEvent.type = "init"
  /\ lastEvent' = [type |-> "payload",
                   result |-> buildRequestPayload(selectedEndpoint, method, url,
                                paramValues, requestBody, bodyType,
                                formValues, fileValues)]
  /\ UNCHANGED <<syncVars, panelVars, draftVars, timerVars, flightVars,
                 history>>

NextPayload == BuildPayload

SpecPayload == InitPayload /\ [][NextPayload]_vars

\* buildRequestPayload returned a result for the endpoint EpFull.
Returned ==
  /\ lastEvent.type = "payload"
  /\ ~lastEvent.result.threw
  /\ selectedEndpoint = EpFull

\* s with every occurrence of pat replaced by rep (rep does not hold pat).
RECURSIVE ReplaceAll(_, _, _)
ReplaceAll(s, pat, rep) ==
  IF IndexOf(s, pat) = 0 THEN s
  ELSE ReplaceAll(Replace(s, pat, rep), pat, rep)

PlaceholderI == <<"{", "i", "}">>

\* C15: for the path parameter i with a non-empty value every {i}
\* placeholder of the URL is replaced by the percent-encoded value; with the
\* value absent or empty the URL keeps its placeholders.
C15_EveryPlaceholderReplaced ==
  Returned =>
    StartsWith(lastEvent.result.finalUrl,
               IF Falsy(ObjGet(paramValues, <<"i">>)) THEN url
               ELSE ReplaceAll(url, PlaceholderI,
                               encodeURIComponent(ObjGet(paramValues, <<"i">>))))

\* The URL after the path parameter i was applied.
PathApplied ==
  IF Falsy(ObjGet(paramValues, <<"i">>)) THEN url
  ELSE Replace(url, PlaceholderI, encodeURIComponent(ObjGet(paramValues, <<"i">>)))

\* The query parameters of the endpoint that have a value, in declaration
\* order, as name-value pairs.
DeclaredQuery ==
  LET HasValue(param) ==
        param.in_type = "query" /\ ~Falsy(ObjGet(paramValues, param.name))
      declared == SelectSeq(selectedEndpoint.parameters, HasValue)
  IN [i \in 1..Len(declared) |->
        [k |-> declared[i].name, v |-> ObjGet(paramValues, declared[i].name)]]

\* C16: the query parameters that have a value are appended to the URL in
\* the declaration order of the endpoint's parameters, those without a value
\* are not appended, and with none the URL gets no "?".
C16_QueryInDeclarationOrder ==
  Returned =>
    lastEvent.result.finalUrl =
      IF DeclaredQuery = <<>> THEN PathApplied
      ELSE PathApplied
             \o (IF Includes(PathApplied, "?") THEN <<"&">> ELSE <<"?">>)
             \o SearchParamsToString(DeclaredQuery)

\* Both query parameters have a value and r was entered before q: the URL
\* ends with q before r.
C16_Witness ==
  /\ Returned
  /\ Len(paramValues) >= 2
  /\ paramValues[1].k = <<"r">>
  /\ paramValues[2].k = <<"q">>
  /\ lastEvent.result.finalUrl =
       <<"/", "p", "/", "{", "i", "}", "?", "q", "=", "1", "&", "r", "=", "2">>

\* C17: for the body type application/json the body is null and there is no
\* multipart descriptor when the method is GET or the body is empty after
\* trimming; otherwise the body is the input string, untrimmed.
C17_JsonBodyPassedThrough ==
  Returned /\ bodyType = "application/json" =>
    /\ lastEvent.result.multipart = Null
    /\ lastEvent.result.body =
         IF method = "GET" \/ Trim(requestBody) = <<>>
         THEN NullStr ELSE requestBody

\* A JSON body with blanks around it was sent with POST: it is passed on
\* with its blanks.
C17_Witness ==
  /\ Returned
  /\ bodyType = "application/json"
  /\ method = "POST"
  /\ requestBody = <<" ", "x", " ">>
  /\ lastEvent.result.body = <<" ", "x", " ">>

\* The headers the header parameters with a value give.
ExplicitHeaders ==
  LET HasValue(param) ==
        param.in_type = "header" /\ ~Falsy(ObjGet(paramValues, param.name))
      declared == SelectSeq(selectedEndpoint.parameters, HasValue)
  IN [i \in 1..Len(declared) |->
        [k |-> declared[i].name, v |-> ObjGet(paramValues, declared[i].name)]]

C19_MultipartDropsContentType ==
  Returned /\ bodyType = "multipart/form-data" /\ method # "GET" =>
    /\ \A i \in 1..Len(lastEvent.result.headers) :
         ToLowerCase(lastEvent.result.headers[i].k) # LowerContentTypeName
    /\ \A i \in 1..Len(lastEvent.result.multipart.fields) :
         lastEvent.result.multipart.fields[i].v # <<>>
    /\ \A i \in 1..Len(lastEvent.result.multipart.files) :
         /\ lastEvent.result.multipart.files[i].paths # <<>>
         /\ \A j \in 1..Len(lastEvent.result.multipart.files[i].paths) :
              lastEvent.result.multipart.files[i].paths[j] # <<>>

\* C20: buildRequestPayload returns a result for every combination of its
\* inputs: it never raises.
C20_NeverRaises ==
  lastEvent.type = "payload" => ~lastEvent.result.threw

\* ------------------------------------------------------------------------
\* defaultBodyType applied to the declared media types.
\* ------------------------------------------------------------------------

MediaTypes ==
  {"application/json", "multipart/form-data",
   "application/x-www-form-urlencoded", "text/plain", "application/xml"}

\* The lists of up to three distinct declared media types.
MediaTypeLists ==
  {types \in UNION {[1..n -> MediaTypes] : n \in 0..3} :
     \A i \in 1..Len(types), j \in 1..Len(types) :
       i # j => types[i] # types[j]}

\* POST /q declaring the media types of the list, or none.
BodyTypeEndpoints ==
  {Null}
    \cup {[EpPost EXCEPT !.body_media_types = types] :
            types \in MediaTypeLists \cup {Undefined}}

InitBodyType ==
  /\ collections = EmptyObj
  /\ collectionsRef = EmptyObj
  /\ openApiUrl = <<>>
  /\ openApiHistory = <<>>
  /\ isImporting = FALSE
  /\ syncStatus = "idle"
  /\ lastSyncedAt = NullNum
  /\ syncTimeoutRef = NullNum
  /\ timeouts = {}
  /\ imports = EmptyBag
  /\ toggles = EmptyBag
  /\ clock = 0
  /\ selectedEndpoint \in BodyTypeEndpoints
  /\ method = "GET"
  /\ url = <<>>
  /\ paramValues = EmptyObj
  /\ requestBody = <<>>
  /\ bodyType = "application/json"
  /\ formValues = EmptyObj
  /\ fileValues = EmptyObj
  /\ endpointDrafts = EmptyObj
  /\ draftsRef = EmptyObj
  /\ autoRequests = EmptyObj
  /\ autoRequestIntervalMs = defaultAutoRequestIntervalMs
  /\ autoRequestTimersRef = EmptyObj
  /\ intervalTimers = {}
  /\ autoRequestInFlightRef = EmptyObj
  /\ pending = EmptyBag
  /\ history = <<>>
  /\ lastEvent = [type |-> "init"]

\* defaultBodyType applied to the endpoint; the result is kept in
\* lastEvent.
ApplyDefaultBodyType ==
  /\ lastEvent.type = "init"
  /\ lastEvent' = [type |-> "body-type", result |-> defaultBodyType(selectedEndpoint)]
  /\ UNCHANGED <<syncVars, panelVars, draftVars, timerVars, flightVars,
                 history>>

NextBodyType == ApplyDefaultBodyType

SpecBodyType == InitBodyType /\ [][NextBodyType]_vars

\* C21: for an endpoint that declares media types the type chosen is
\* application/json when it is declared, otherwise multipart/form-data,
\* otherwise application/x-www-form-urlencoded, otherwise the first declared.
C21_PrefersJson ==
  /\ lastEvent.type = "body-type"
  /\ selectedEndpoint # Null
  /\ selectedEndpoint.body_media_types # Undefined
  /\ selectedEndpoint.body_media_types # <<>>
  => lastEvent.result =
       IF ArrayIncludes(selectedEndpoint.body_media_types, "application/json")
         THEN "application/json"
       ELSE IF ArrayIncludes(selectedEndpoint.body_media_types, "multipart/form-data")
         THEN "multipart/form-data"
       ELSE IF ArrayIncludes(selectedEndpoint.body_media_types,
                             "application/x-www-form-urlencoded")
         THEN "application/x-www-form-urlencoded"
       ELSE selectedEndpoint.body_media_types[1]

\* ------------------------------------------------------------------------
\* Polling with two collections that hold the same method and path.
\* ------------------------------------------------------------------------

\* Collections A and B are both imported; POST /q is an endpoint of both.
SharedCollections == <<[k |-> UrlA, v |-> ColA], [k |-> UrlB, v |-> ColB]>>

InitShared ==
  /\ collections = SharedCollections
  /\ collectionsRef = SharedCollections
  /\ openApiUrl = <<>>
  /\ openApiHistory = <<UrlB, UrlA>>
  /\ isImporting = FALSE
  /\ syncStatus = "idle"
  /\ lastSyncedAt = <<1>>
  /\ syncTimeoutRef = <<1>>
  /\ timeouts = {}
  /\ imports = EmptyBag
  /\ toggles = EmptyBag
  /\ clock = 1
  /\ selectedEndpoint = Null
  /\ method = "GET"
  /\ url = <<>>
  /\ paramValues = EmptyObj
  /\ requestBody = <<>>
  /\ bodyType = "application/json"
  /\ formValues = EmptyObj
  /\ fileValues = EmptyObj
  /\ endpointDrafts = EmptyObj
  /\ draftsRef = EmptyObj
  /\ autoRequests = EmptyObj
  /\ autoRequestIntervalMs = defaultAutoRequestIntervalMs
  /\ autoRequestTimersRef = EmptyObj
  /\ intervalTimers = {}
  /\ autoRequestInFlightRef = EmptyObj
  /\ pending = EmptyBag
  /\ history = <<>>
  /\ lastEvent = [type |-> "init"]

SpecShared == InitShared /\ [][NextPoll]_vars

\* The (collection, endpoint) pairs the sidebar lists.
PollPairs(cols) ==
  {pair \in {[col |-> cols[i].v, endpoint |-> endpoint] : i \in 1..Len(cols), endpoint \in ModelEndpoints} :
     ArrayIncludes(CollectionEndpoints(pair.col), pair.endpoint)}

\* The request panel shows pair: its endpoint is selected and the URL field
\* holds the URL selectEndpoint resolved against its collection.
PanelShows(pair, endpoint, panelUrl) ==
  /\ endpoint = pair.endpoint
  /\ panelUrl = resolveEndpointUrl(pair.endpoint, pair.col.url)

\* autoRequestEnabled as the request panel reads it for the endpoint of pair.
PollEnabledFor(pair, auto) == ObjTrue(auto, endpointKey(pair.endpoint))

\* C22: poll state is owned per (collection, endpoint): a toggle of the
\* polling checkbox for the pair the panel shows leaves the enabled state of
\* every other pair as it was, and the request it dispatches is addressed to
\* the collection of that pair.
C22_PollStatePerCollectionEndpoint ==
  [][lastEvent'.type = "toggle" =>
       \A pair \in PollPairs(collections) :
         IF PanelShows(pair, selectedEndpoint, url)
           THEN \A call \in BagToSet(pending') :
                  CopiesIn(call, pending') > CopiesIn(call, pending)
                    /\ call.key = endpointKey(pair.endpoint)
                    => StartsWith(call.finalUrl, UrlOrigin(pair.col.url))
           ELSE PollEnabledFor(pair, autoRequests') = PollEnabledFor(pair, autoRequests)]_vars

\* ------------------------------------------------------------------------
\* Sync state and several collections.
\* ------------------------------------------------------------------------

\* The sync status and time the sidebar shows for the collection imported
\* from collectionUrl: the one syncStatus and lastSyncedAt of the App.
SyncStateShownFor(collectionUrl, status, syncedAt) ==
  [status |-> status, lastSyncedAt |-> syncedAt]

\* C23: sync state is kept per collection and collections do not block each
\* other: an import or update of one collection leaves the status and the
\* lastSyncedAt of every other stored collection as they were, and a click
\* on import with a URL in the field starts the import although the import
\* of another URL is in flight.
C23_SyncStatePerCollection ==
  [][/\ lastEvent'.type \in {"imported", "collection-updated"} =>
          \A collectionUrl \in {collections[i].k : i \in 1..Len(collections)} \ {lastEvent'.col.url} :
            SyncStateShownFor(collectionUrl, syncStatus', lastSyncedAt')
              = SyncStateShownFor(collectionUrl, syncStatus, lastSyncedAt)
     /\ (/\ lastEvent'.type = "import"
         /\ Trim(openApiUrl) # <<>>
         /\ \A call \in BagToSet(imports) : call.url # Trim(openApiUrl))
          => lastEvent'.started]_vars

\* ------------------------------------------------------------------------
\* Independence of the poll timers.
\* ------------------------------------------------------------------------

\* C24: poll timers are independent per endpoint: a toggle of the polling
\* checkbox of one endpoint dispatches no request for any other endpoint
\* and leaves the live timers of every other endpoint as they were.
C24_TimersIndependent ==
  [][lastEvent'.type = "toggle" =>
       \A key \in Keys \ {lastEvent'.key} :
         /\ CallsFor(pending', key) = CallsFor(pending, key)
         /\ {timer \in intervalTimers' : timer.key = key} = TimersFor(key)]_vars

\* C25: there is exactly one live interval timer for each endpoint key with
\* polling enabled and none for any other key, no two live timers share an
\* id, and the timer registry records, under the key of each live timer,
\* the id of that timer and nothing else.
C25_OneTimerPerEnabledKey ==
  /\ \A key \in Keys :
       IF ObjTrue(autoRequests, key)
         THEN \E timer \in intervalTimers : TimersFor(key) = {timer}
         ELSE TimersFor(key) = {}
  /\ \A timer \in intervalTimers : timer.key \in Keys
  /\ \A t1 \in intervalTimers, t2 \in intervalTimers : t1.id = t2.id => t1 = t2
  /\ {[key |-> autoRequestTimersRef[i].k, id |-> autoRequestTimersRef[i].v] : i \in 1..Len(autoRequestTimersRef)}
       = {[key |-> timer.key, id |-> timer.id] : timer \in intervalTimers}

\* Polling was just disabled for one endpoint after an interval change while
\* another endpoint keeps its one timer.
C25_Witness ==
  /\ lastEvent.type = "toggle"
  /\ ~lastEvent.enabled
  /\ Cardinality(intervalTimers) = 1
  /\ autoRequestIntervalMs # defaultAutoRequestIntervalMs
  /\ \E key \in Keys \ {lastEvent.key} : ObjTrue(autoRequests, key)

\* C26: the in-flight flag of an endpoint key is true exactly while an auto
\* request dispatched for the key has not completed.
C26_FlagTracksOutstandingRequest ==
  \A key \in Keys :
    ObjTrue(autoRequestInFlightRef, key) <=> CallsFor(pending, key) > 0

\* C27: while an import is in flight, from the call of import_openapi until
\* it resolves or rejects, the sync status is 'syncing'.
C27_SyncingWhileImporting ==
  imports # EmptyBag => syncStatus = "syncing"

\* ------------------------------------------------------------------------
\* Drafts, the request panel and the history.
\* ------------------------------------------------------------------------

\* `${pathname}${search}` of an absolute URL, the value itself otherwise.
\* (The URLs of the model parse and carry no fragment.)
normalizeEndpointPath(value) ==
  IF ~isAbsoluteUrl(value) THEN value
  ELSE IF Len(UrlOrigin(value)) = Len(value) THEN <<"/">>
  ELSE SubSeq(value, Len(UrlOrigin(value)) + 1, Len(value))

\* The first endpoint of the collections with the method and the normalized
\* path of the entry, Null when there is none.
findEndpointByRequest(cols, entry) ==
  LET eps == AllEndpoints(cols)
      hits == {i \in 1..Len(eps) :
                 /\ eps[i].method = entry.method
                 /\ normalizeEndpointPath(eps[i].path) = normalizeEndpointPath(entry.url)}
  IN IF hits = {} THEN Null
     ELSE eps[CHOOSE i \in hits : \A j \in hits : i <= j]

\* reuseHistory(entry): the user loads a history entry into the request
\* panel.  No state of the timers effect changes, so it does not run.
reuseHistory(entry) ==
  LET Load(matchedEndpoint) ==
        LET requestedBodyType ==
              IF entry.body_type # "" THEN entry.body_type
              ELSE defaultBodyType(matchedEndpoint)
            nextBodyType ==
              IF /\ matchedEndpoint # Null
                 /\ matchedEndpoint.body_media_types # Undefined
                 /\ Len(matchedEndpoint.body_media_types) > 0
                 /\ ~ArrayIncludes(matchedEndpoint.body_media_types, requestedBodyType)
                THEN defaultBodyType(matchedEndpoint)
                ELSE requestedBodyType
        IN /\ selectedEndpoint' = matchedEndpoint
           /\ method' = entry.method
           /\ url' = IF matchedEndpoint # Null
                       THEN resolveEndpointUrl(matchedEndpoint,
                              findCollectionUrlForEndpoint(collectionsRef, matchedEndpoint))
                     ELSE IF ~Falsy(entry.resolved_url) THEN entry.resolved_url
                     ELSE entry.url
           /\ paramValues' = entry.params
           /\ bodyType' = nextBodyType
           /\ IF isFormBodyType(nextBodyType)
                THEN /\ formValues' = IF entry.form_values = Undefined
                                        THEN EmptyObj ELSE entry.form_values
                     /\ fileValues' = IF entry.file_values = Undefined
                                        THEN EmptyObj ELSE entry.file_values
                     /\ requestBody' = <<>>
                ELSE /\ formValues' = EmptyObj
                     /\ fileValues' = EmptyObj
                     /\ requestBody' = entry.body
  IN /\ Load(findEndpointByRequest(collections, entry))
     /\ lastEvent' = [type |-> "reuse"]
     /\ UNCHANGED <<syncVars, draftVars, timerVars, flightVars, history>>

\* The user clicks the reuse button of an entry of the history list.
ReuseHistory ==
  \E i \in 1..Len(history) : reuseHistory(history[i])

NextDraft ==
  \/ NextPoll
  \/ ReuseHistory

SpecDraft == InitPoll /\ [][NextDraft]_vars

\* The draft stored for the endpoint holds the values of the request panel.
DraftShown(endpoint, drafts, params, body, type, forms, files) ==
  /\ ObjHas(drafts, endpointKey(endpoint))
  /\ ObjGet(drafts, endpointKey(endpoint)) =
       [params |-> params, body |-> body, bodyType |-> type,
        formValues |-> forms, fileValues |-> files]

\* C28: every auto request is built from the draft stored for its endpoint
\* key as of the dispatch, and while an endpoint is selected the draft
\* stored for it equals the parameter, body, body-type, form and file values
\* of the request panel.
C28_DraftMatchesPanel ==
  [][/\ \A call \in BagToSet(pending') :
          CopiesIn(call, pending') > CopiesIn(call, pending)
            => DispatchReads(call, draftsRef', collectionsRef')
     /\ selectedEndpoint' # Null
          => DraftShown(selectedEndpoint', endpointDrafts', paramValues',
                        requestBody', bodyType', formValues', fileValues')]_vars

\* ------------------------------------------------------------------------
\* Polling while the backend replaces the collection.
\* ------------------------------------------------------------------------

\* Collection A as the backend re-fetched it without GET /p/{i}.
ColA3 ==
  [name |-> "A", url |-> UrlA, sync_enabled |-> TRUE,
   groups |-> <<[k |-> "pets", v |-> <<EpPost>>]>>]

\* The payloads of the collection-updated events of the specification.
RemovalCollections == {ColA, ColA3}

\* The user selects, edits and toggles polling at the default interval,
\* requests succeed, and the backend replaces the collection.
NextRemoved ==
  \/ SelectEndpoint
  \/ \E value \in ParamInputs : OnParamChange(<<"i">>, value)
  \/ ToggleAutoRequest
  \/ \E timer \in intervalTimers : Tick(timer)
  \/ \E call \in BagToSet(pending) : \E res \in Responses : RequestResolves(call, res)
  \/ \E col \in RemovalCollections : OnCollectionUpdated(col)
  \/ \E id \in timeouts : SyncResetFires(id)

SpecRemoved == InitPoll /\ [][NextRemoved]_vars

\* Some stored collection holds an endpoint with the key.
KeyStored(cols, key) ==
  \E i \in 1..Len(AllEndpoints(cols)) : endpointKey(AllEndpoints(cols)[i]) = key

\* C29: while no stored collection holds an enabled key, a tick of its timer
\* dispatches nothing, adds no history entry and leaves its timer, its
\* enabled flag and its in-flight flag alone, and the immediate trigger of
\* the timers effect dispatches nothing for it; a collection-updated event
\* leaves timers and enabled flags alone; and once an event brings the key
\* back its ticks dispatch again: the key is not blocked by an in-flight
\* flag with no request outstanding.
C29_MissingKeyDispatchesNothing ==
  [][/\ lastEvent'.type = "tick" /\ ~KeyStored(collectionsRef, lastEvent'.key)
          => /\ pending' = pending
             /\ history' = history
             /\ timerVars' = timerVars
             /\ autoRequestInFlightRef' = autoRequestInFlightRef
     /\ lastEvent'.type = "toggle"
          => \A key \in Keys :
               ~KeyStored(collectionsRef', key)
                 => CallsFor(pending', key) = CallsFor(pending, key)
     /\ lastEvent'.type = "collection-updated"
          => /\ timerVars' = timerVars
             /\ \A key \in Keys :
                  (/\ ObjTrue(autoRequests, key)
                   /\ ~KeyStored(collectionsRef, key)
                   /\ KeyStored(collectionsRef', key)
                   /\ ObjTrue(autoRequestInFlightRef', key))
                    => CallsFor(pending', key) > 0]_vars

\* ------------------------------------------------------------------------
\* The history: manual sends and auto requests on a stored history.
\* ------------------------------------------------------------------------

\* The i-th entry of the history an earlier session stored, newest first.
StoredEntry(i) ==
  [method |-> "GET", url |-> <<"/", "s">>,
   resolved_url |-> <<"h", "t", "t", "p", ":", "/", "/", "a", "/", "s">>,
   params |-> EmptyObj, body |-> <<>>, body_type |-> "application/json",
   form_values |-> Undefined, file_values |-> Undefined,
   response |-> StoredMark \o [j \in 1..i |-> "x"]]

\* The history the mount effect reads from localStorage.
StoredHistory(n) == [i \in 1..n |-> StoredEntry(i)]

\* The lengths of the stored history: one short of full, and full.
StoredLengths == {maxHistoryEntries - 1, maxHistoryEntries}

\* sendRequest has no endpoint key: the key of its call is empty.
ManualKey == <<>>

ManualCalls == {call \in BagToSet(pending) : call.key = ManualKey}

AutoCalls == {call \in BagToSet(pending) : call.key # ManualKey}

\* isSending: sendRequest set it and its finally has not run.
isSending == ManualCalls # {}

\* The values sendRequest snapshots at the click.
PanelSnapshot ==
  [params |-> paramValues, body |-> requestBody, bodyType |-> bodyType,
   formValues |-> formValues, fileValues |-> fileValues]

\* The history entry of sendRequest's finally block.
ManualEntry(call, finalResponse) ==
  [method |-> call.method,
   url |-> call.path,
   resolved_url |-> call.finalUrl,
   params |-> call.draft.params,
   body |-> IF isFormBodyType(call.draft.bodyType) THEN <<>> ELSE call.draft.body,
   body_type |-> call.draft.bodyType,
   form_values |-> IF isFormBodyType(call.draft.bodyType)
                     THEN call.draft.formValues ELSE Undefined,
   file_values |-> IF isFormBodyType(call.draft.bodyType)
                     THEN call.draft.fileValues ELSE Undefined,
   response |-> finalResponse]

\* A click on Send: sendRequest up to its await.  The button is disabled
\* while isSending.  When buildRequestPayload raises, the catch and the
\* finally run at once: resolvedUrl is still the trimmed URL.
SendRequest ==
  /\ ~isSending
  /\ Trim(url) # <<>>
  /\ BagCardinality(pending) + SessionEntries(history) < MaxDispatch
  /\ LET Sent(payload) ==
           LET call == [key |-> ManualKey, method |-> method, path |-> Trim(url),
                        finalUrl |-> IF payload.threw THEN Trim(url) ELSE payload.finalUrl,
                        headers |-> payload.headers, body |-> payload.body,
                        multipart |-> payload.multipart, draft |-> PanelSnapshot]
           IN IF payload.threw
                THEN /\ history' = addHistoryEntry(history,
                                     ManualEntry(call, ErrorPrefix \o <<"U", "R", "I", "E", "r", "r", "o", "r">>))
                     /\ pending' = pending
                ELSE /\ history' = history
                     /\ pending' = pending (+) SetToBag({call})
     IN Sent(buildRequestPayload(selectedEndpoint, method, Trim(url), paramValues,
                                 requestBody, bodyType, formValues, fileValues))
  /\ lastEvent' = [type |-> "send",
                   added |-> buildRequestPayload(selectedEndpoint, method, Trim(url),
                               paramValues, requestBody, bodyType, formValues,
                               fileValues).threw]
  /\ UNCHANGED <<syncVars, panelVars, draftVars, timerVars, autoRequestInFlightRef>>

\* sendRequest after its await: invoke("request") resolved with res.  An
\* empty response adds no entry.
SendResolves(call, res) ==
  /\ call \in ManualCalls
  /\ pending' = pending (-) SetToBag({call})
  /\ history' = IF res # <<>> THEN addHistoryEntry(history, ManualEntry(call, res))
                ELSE history
  /\ lastEvent' = [type |-> "sent", added |-> res # <<>>]
  /\ UNCHANGED <<syncVars, panelVars, draftVars, timerVars, autoRequestInFlightRef>>

\* sendRequest after its await: invoke("request") rejected with error.
SendRejects(call, error) ==
  /\ call \in ManualCalls
  /\ pending' = pending (-) SetToBag({call})
  /\ history' = addHistoryEntry(history, ManualEntry(call, ErrorPrefix \o error))
  /\ lastEvent' = [type |-> "send-failed", added |-> TRUE]
  /\ UNCHANGED <<syncVars, panelVars, draftVars, timerVars, autoRequestInFlightRef>>

\* The state after the mount effects: ColA imported, the history of an
\* earlier session loaded.
InitHistory ==
  /\ collections = <<[k |-> UrlA, v |-> ColA]>>
  /\ collectionsRef = <<[k |-> UrlA, v |-> ColA]>>
  /\ openApiUrl = <<>>
  /\ openApiHistory = <<UrlA>>
  /\ isImporting = FALSE
  /\ syncStatus = "idle"
  /\ lastSyncedAt = <<1>>
  /\ syncTimeoutRef = <<1>>
  /\ timeouts = {}
  /\ imports = EmptyBag
  /\ toggles = EmptyBag
  /\ clock = 1
  /\ selectedEndpoint = Null
  /\ method = "GET"
  /\ url = <<>>
  /\ paramValues = EmptyObj
  /\ requestBody = <<>>
  /\ bodyType = "application/json"
  /\ formValues = EmptyObj
  /\ fileValues = EmptyObj
  /\ endpointDrafts = EmptyObj
  /\ draftsRef = EmptyObj
  /\ autoRequests = EmptyObj
  /\ autoRequestIntervalMs = defaultAutoRequestIntervalMs
  /\ autoRequestTimersRef = EmptyObj
  /\ intervalTimers = {}
  /\ autoRequestInFlightRef = EmptyObj
  /\ pending = EmptyBag
  /\ history \in {StoredHistory(n) : n \in StoredLengths}
  /\ lastEvent = [type |-> "init"]

\* The responses of a manual send: a body or nothing.
ManualResponses == Responses \cup {<<>>}

NextHistory ==
  \/ SelectEndpoint
  \/ OnParamChange(<<"i">>, <<LoneSurrogate>>)
  \/ ToggleAutoRequest
  \/ \E timer \in intervalTimers : Tick(timer)
  \/ \E call \in AutoCalls : \E res \in Responses : RequestResolves(call, res)
  \/ \E call \in AutoCalls : \E error \in Errors : RequestRejects(call, error)
  \/ SendRequest
  \/ \E call \in ManualCalls : \E res \in ManualResponses : SendResolves(call, res)
  \/ \E call \in ManualCalls : \E error \in Errors : SendRejects(call, error)

SpecHistory == InitHistory /\ [][NextHistory]_vars

\* C30: the history never holds more than 50 entries; it changes only when
\* a manual send or an auto request completes, and then the entry of that
\* completion is first, the entries before follow in their order, and at a
\* full history exactly the last, oldest one is gone.
C30_HistoryCappedNewestFirst ==
  [][/\ Len(history') <= 50
     /\ history' # history
          => /\ lastEvent'.type \in {"resolve", "reject", "send", "sent", "send-failed"}
             /\ Len(history') = IF Len(history) < 50 THEN Len(history) + 1 ELSE 50
             /\ ~StartsWith(history'[1].response, StoredMark)
             /\ \A i \in 2..Len(history') : history'[i] = history[i - 1]
     /\ (lastEvent'.type \in {"resolve", "reject", "send-failed"}
           \/ (lastEvent'.type \in {"send", "sent"} /\ lastEvent'.added))
          => history' # history]_vars

\* A manual send and an auto request completed on a full stored history:
\* their two entries are first and the two oldest stored entries are gone.
C30_Witness ==
  /\ Len(history) = maxHistoryEntries
  /\ lastEvent.type \in {"resolve", "reject"}
  /\ ~StartsWith(history[1].response, StoredMark)
  /\ ~StartsWith(history[2].response, StoredMark)
  /\ history[2].url = history[2].resolved_url
  /\ history[3] = StoredEntry(1)
  /\ history[maxHistoryEntries] = StoredEntry(maxHistoryEntries - 2)

====
